---------------------------- MODULE Spec2Model ----------------------------
(***************************************************************************)
(* A model of the bird-server protocol codec kernel: the slice cursor and  *)
(* the Vec<u8> writer, VarInt / VarLong, length-limited strings, the       *)
(* derived Handshake writer, the BlockPosition variant and the compact     *)
(* long packer / unpacker.                                                 *)
(*                                                                         *)
(* Representation.  TLC integers are 32 bits wide, so a machine word       *)
(* (u32, i32 pattern, u64, i64 pattern) is the set of the positions of its *)
(* 1 bits: | is \cup, & is \cap, shifts move the positions and drop those  *)
(* that leave the width.  Bytes are integers 0..255.  A &[u8] cursor is    *)
(* the sequence of the bytes it still holds; a &str is its UTF-8 bytes.    *)
(***************************************************************************)
EXTENDS Integers, Sequences, FiniteSets, TLC

VARIABLES
    build,    \* the compile profile: overflow_checks, debug_assertions
    pc,       \* position of the calling code
    input,    \* the arguments handed to the operation under study
    writer,   \* the Vec<u8> used as ProtocolWriter
    cursors,  \* the &[u8] cursors in scope, each its remaining bytes
    call,     \* the last call made: its name, the cursor (or entry) it was made
              \* on, its length argument and the cursors as they were handed to it
    result,   \* what the last call returned
    packer,   \* the GapCompactLongsWriter's fields (current, current_index, ...)
    unpacker, \* the GapCompactLongsReader's fields and the items it has yielded
    owned     \* the OwnedBitSet or OwnedLightArray the calls act on

vars == <<build, pc, input, writer, cursors, call, result, packer, unpacker, owned>>

-----------------------------------------------------------------------------
(* Machine words as sets of bit positions *)

\* The value of a word whose 1 bits all lie below bit 31.
RECURSIVE NatOf(_)
NatOf(s) ==
    IF s = {} THEN 0
    ELSE LET b == CHOOSE x \in s : TRUE IN 2^b + NatOf(s \ {b})

\* The word holding the natural number n < 2^31.
BitsOf(n) == {b \in 0..30 : (n \div 2^b) % 2 = 1}

\* $ty::to_be_bytes: the n bytes of the word, most significant first.
to_be_bytes(word, n) ==
    [i \in 1..n |-> NatOf({b - 8 * (n - i) : b \in word \cap (8 * (n - i))..(8 * (n - i) + 7)})]

\* $ty::from_be_bytes
from_be_bytes(bytes) ==
    UNION {{b + 8 * (Len(bytes) - i) : b \in BitsOf(bytes[i])} : i \in 1..Len(bytes)}

\* word << k and word >> k at the given width
Shl(word, k, width) == {b + k : b \in word} \cap 0..(width - 1)
Shr(word, k) == {b - k : b \in {c \in word : c >= k}}

\* The build profiles: debug (both checks on), release (both off) and the two
\* mixed profiles a Cargo profile can ask for.
Builds == [overflow_checks : BOOLEAN, debug_assertions : BOOLEAN]

\* What a call returns: Ok(val), Err(End), Err(Any(msg)), or a panic.  rest is
\* the cursor after the call.
Ok(v, rest) == [kind |-> "Ok", val |-> v, rest |-> rest]
ErrEnd(rest) == [kind |-> "End", val |-> {}, rest |-> rest]
ErrAny(msg, rest) == [kind |-> "Any", val |-> msg, rest |-> rest]
Panic(rest) == [kind |-> "Panic", val |-> {}, rest |-> rest]
NoResult == [kind |-> "None", val |-> {}, rest |-> <<>>]

-----------------------------------------------------------------------------
(* impl ProtocolCursor for &[u8] *)

remaining_bytes(slice) == Len(slice)

has_bytes(slice, length) == length <= remaining_bytes(slice)

\* take_bytes as it would be if it clipped the demand to what is left
take_bytes_truncating(slice, length) ==
    IF has_bytes(slice, length)
    THEN Ok(SubSeq(slice, 1, length), SubSeq(slice, length + 1, Len(slice)))
    ELSE Ok(slice, <<>>)

take_byte(slice) ==
    IF remaining_bytes(slice) = 0
    THEN ErrEnd(slice)
    ELSE Ok(slice[1], SubSeq(slice, 2, Len(slice)))

take_bytes(slice, length) ==
    IF has_bytes(slice, length)
    THEN Ok(SubSeq(slice, 1, length), SubSeq(slice, length + 1, Len(slice)))
    ELSE ErrEnd(slice)

take_cursor(slice) == slice

-----------------------------------------------------------------------------
(* var_number_impl!(VarInt = (i32, u32), VarLong = (i64, u64)) *)

\* size_of::<$signed>() * 8
VarWidth(ty) == IF ty = "VarInt" THEN 32 ELSE 64

\* fixed_range_size!(VarInt = (1, 5), VarLong = (1, 10))
VarSize(ty) == IF ty = "VarInt" THEN [start |-> 1, end |-> 5] ELSE [start |-> 1, end |-> 10]

\* write_variant: 7-bit groups of the unsigned reinterpretation, low group first.
RECURSIVE var_write_variant(_, _)
var_write_variant(object, out) ==
    IF object \cap {b \in object : b >= 7} = {}
    THEN Append(out, NatOf(object))
    ELSE var_write_variant(Shr(object, 7), Append(out, NatOf(object \cap 0..6) + 128))

\* ((current_byte & 0x7F) << position): both operands are u8, so the shift is
\* a u8 shift.  position >= 8 panics under overflow checks and is masked to
\* position & 7 without them; bits shifted past bit 7 are lost either way.
var_group(current_byte, position) ==
    ((current_byte % 128) * 2^(position % 8)) % 256

\* read_variant, from the state (value, position) of its loop.
RECURSIVE var_read_loop(_, _, _, _, _)
var_read_loop(ty, slice, value, position, bld) ==
    LET taken == take_byte(slice) IN
    IF taken.kind # "Ok" THEN ErrEnd(taken.rest)
    ELSE IF position >= 8 /\ bld.overflow_checks THEN Panic(taken.rest)
    ELSE LET current_byte == taken.val
             value2 == value \cup BitsOf(var_group(current_byte, position))
         IN  IF current_byte < 128 THEN Ok(value2, taken.rest)
             ELSE IF position + 7 >= VarWidth(ty)
                  THEN ErrAny("Var number is too big", taken.rest)
                  ELSE var_read_loop(ty, taken.rest, value2, position + 7, bld)

var_read_variant(ty, slice, bld) == var_read_loop(ty, slice, {}, 0, bld)


-----------------------------------------------------------------------------
(* VarInt / VarLong: the values written and the byte strings read *)

MaxRawLen == 11

\* Words with one run of 1 bits (0, 1, 127, 128, 2048, 2097151, 2097152,
\* i32::MAX, i32::MIN, -1 and their like), and 300 and 761.
VarValues(ty) ==
    {lo..hi : lo \in 0..(VarWidth(ty) - 1), hi \in 0..(VarWidth(ty) - 1)}
        \cup {BitsOf(300), BitsOf(761)}

\* Bytes that follow the encoding in the buffer read back.
Trails == {<<>>, <<255>>}

\* n bytes with the continuation bit set, then nothing or one closing byte.
RawInputs ==
    {[i \in 1..n |-> c] \o t :
        n \in 0..MaxRawLen, c \in {128, 255}, t \in {<<>>, <<0>>, <<1>>, <<127>>}}

NoCall == [op |-> "none", on |-> 0, length |-> 0, before |-> <<>>]
NoPacker == [bits |-> 0]
NoUnpacker == [bits |-> 0, yielded |-> <<>>]
NoOwned == <<>>

VarInit ==
    /\ build \in Builds
    /\ pc = "var_start"
    /\ \E ty \in {"VarInt", "VarLong"} :
        \/ \E v \in VarValues(ty), trail \in Trails :
                input = [kind |-> "value", ty |-> ty, v |-> v, bytes |-> trail]
        \/ \E bytes \in RawInputs :
                input = [kind |-> "raw", ty |-> ty, v |-> {}, bytes |-> bytes]
    /\ writer = <<>>
    /\ cursors = <<>>
    /\ call = NoCall
    /\ result = NoResult
    /\ packer = NoPacker
    /\ unpacker = NoUnpacker
    /\ owned = NoOwned

\* <$ty as ProtocolVariantWritable<$signed>>::write_variant(&v, &mut writer)
VarWrite ==
    /\ pc = "var_start"
    /\ input.kind = "value"
    /\ writer' = var_write_variant(input.v, writer)
    /\ pc' = "var_written"
    /\ call' = [op |-> "write_variant", on |-> 0, length |-> 0, before |-> cursors]
    /\ UNCHANGED <<build, input, cursors, result, packer, unpacker, owned>>

\* read_variant on a cursor over the bytes written, followed by the trail
VarReadBack ==
    /\ pc = "var_written"
    /\ LET r == var_read_variant(input.ty, writer \o input.bytes, build) IN
        /\ result' = r
        /\ cursors' = <<r.rest>>
    /\ pc' = "var_done"
    /\ call' = [op |-> "read_variant", on |-> 1, length |-> 0, before |-> cursors]
    /\ UNCHANGED <<build, input, writer, packer, unpacker, owned>>

\* read_variant on a cursor over bytes that came from the peer
VarReadRaw ==
    /\ pc = "var_start"
    /\ input.kind = "raw"
    /\ LET r == var_read_variant(input.ty, input.bytes, build) IN
        /\ result' = r
        /\ cursors' = <<r.rest>>
    /\ pc' = "var_done"
    /\ call' = [op |-> "read_variant", on |-> 1, length |-> 0, before |-> cursors]
    /\ UNCHANGED <<build, input, writer, packer, unpacker, owned>>

VarNext == VarWrite \/ VarReadBack \/ VarReadRaw

SpecVarNum == VarInit /\ [][VarNext]_vars

\* C1: reading with VarInt (VarLong) the bytes produced by writing an i32
\* (i64) value v returns v and consumes exactly the bytes written.
VarNumRoundTrip ==
    (pc = "var_done" /\ input.kind = "value") =>
        /\ result.kind = "Ok"
        /\ result.val = input.v
        /\ result.rest = input.bytes

\* The number of leading bytes of a byte string that carry the continuation bit.
RECURSIVE LeadingContinuations(_)
LeadingContinuations(bytes) ==
    IF bytes = <<>> \/ Head(bytes) < 128 THEN 0
    ELSE 1 + LeadingContinuations(Tail(bytes))

\* The VarInt lengths the spec lists for 0, 1, 127, 128, 2097151, 2097152,
\* i32::MIN, i32::MAX, -1.
VarIntListedLength(v) ==
    CASE v = {} -> 1
      [] v = {0} -> 1
      [] v = 0..6 -> 1
      [] v = {7} -> 2
      [] v = 0..20 -> 3
      [] v = {21} -> 4
      [] v = {31} -> 5
      [] v = 0..30 -> 5
      [] v = 0..31 -> 5
      [] OTHER -> 0

\* C2: encodings are 1..5 (1..10) bytes long on the write side, with the
\* listed lengths; a read whose first 5 (10) bytes all carry the continuation
\* bit returns a malformed error; a read whose input ends while the
\* continuation bit is still set returns End.
VarNumLengthBounds ==
    /\ pc = "var_written" =>
        /\ Len(writer) >= VarSize(input.ty).start
        /\ Len(writer) <= VarSize(input.ty).end
        /\ (input.ty = "VarInt" /\ VarIntListedLength(input.v) # 0) =>
                Len(writer) = VarIntListedLength(input.v)
    /\ (pc = "var_done" /\ input.kind = "raw") =>
        /\ LeadingContinuations(input.bytes) >= VarSize(input.ty).end =>
                result.kind = "Any"
        /\ (LeadingContinuations(input.bytes) = Len(input.bytes)
                /\ Len(input.bytes) < VarSize(input.ty).end) =>
                result.kind = "End"

-----------------------------------------------------------------------------
(* Length-prefixed strings *)

DEFAULT_LIMIT == 32767
CHAT_LIMIT == 262144

\* The two's-complement pattern, width bits wide, of an integer in the i32 range.
SignedBits(x, width) ==
    {b \in 0..30 : (x \div 2^b) % 2 = 1} \cup (IF x < 0 THEN 31..(width - 1) ELSE {})

\* write_str_with_limit::<W, LIMIT>(object, writer): the result, with the
\* writer after the call as rest.
write_str_with_limit(object, LIMIT, out) ==
    IF Len(object) <= LIMIT
    THEN Ok({}, var_write_variant(SignedBits(Len(object), 32), out) \o object)
    ELSE ErrAny("Too long string", out)

\* std::str::from_utf8 accepts exactly the well-formed UTF-8 byte strings:
\* every byte is a lead byte followed by the continuation bytes its length
\* asks for (the second byte in the range that excludes overlong forms,
\* surrogates and values above U+10FFFF), or a continuation byte of such a lead.
is_utf8(bytes) ==
    LET n == Len(bytes)
        width(b) == IF b < 128 THEN 1
                    ELSE IF b \in 194..223 THEN 2
                    ELSE IF b \in 224..239 THEN 3
                    ELSE IF b \in 240..244 THEN 4 ELSE 0
        second(b) == CASE b = 224 -> 160..191
                       [] b = 237 -> 128..159
                       [] b = 240 -> 144..191
                       [] b = 244 -> 128..143
                       [] OTHER -> 128..191
    IN  \A i \in 1..n :
            IF bytes[i] \in 128..191
            THEN \E k \in 1..3 :
                    /\ i - k >= 1
                    /\ width(bytes[i - k]) > k
                    /\ \A j \in (i - k + 1)..(i - 1) : bytes[j] \in 128..191
            ELSE /\ width(bytes[i]) >= 1
                 /\ i + width(bytes[i]) - 1 <= n
                 /\ \A j \in (i + 1)..(i + width(bytes[i]) - 1) : bytes[j] \in 128..191
                 /\ width(bytes[i]) >= 2 => bytes[i + 1] \in second(bytes[i])

\* read_str_with_limit::<C, LIMIT>(cursor).  length as usize of a negative i32
\* is above every limit.
read_str_with_limit(slice, LIMIT, bld) ==
    LET length == var_read_variant("VarInt", slice, bld) IN
    IF length.kind # "Ok" THEN length
    ELSE IF 31 \notin length.val /\ NatOf(length.val) <= LIMIT
         THEN LET taken == take_bytes(length.rest, NatOf(length.val)) IN
              IF taken.kind = "Ok" /\ ~is_utf8(taken.val)
              THEN ErrAny("Utf8Error", taken.rest)
              ELSE taken
         ELSE ErrAny("Too long string", length.rest)

-----------------------------------------------------------------------------
(* #[derive(ProtocolAll)]: the generated ProtocolWritable *)

\* create_prepared_variants as it would be if an arm without a value took
\* the previous arm's key unchanged
create_prepared_variants_no_increment(variants) ==
    [i \in 1..Len(variants) |->
        [ident |-> variants[i].ident,
         value |-> IF variants[i].key_value # <<>> THEN variants[i].key_value[1]
                   ELSE IF i = 1 \/ variants[i - 1].key_value = <<>> THEN 0
                   ELSE variants[i - 1].key_value[1]]]

\* create_prepared_variants: each arm with its key, the explicit value
\* (<<v>>; <<>> when the arm gives none) or the previous arm's key
\* + (1 as key_ty), starting from 0.
RECURSIVE prepared_variants_loop(_, _, _)
prepared_variants_loop(variants, previous_value, prepared) ==
    IF variants = <<>> THEN prepared
    ELSE LET variant == Head(variants)
             value == IF variant.key_value # <<>> THEN variant.key_value[1] ELSE previous_value
         IN  prepared_variants_loop(Tail(variants), value + 1,
                                    Append(prepared, [ident |-> variant.ident, value |-> value]))

create_prepared_variants(variants) == prepared_variants_loop(variants, 0, <<>>)

\* create_prepared_fields without ghost values: the fields that carry no
\* order attribute in declaration order, then each ordered field inserted
\* at its order, lowest order first.
RECURSIVE insert_ordered(_, _)
insert_ordered(ordered_fields, specific) ==
    IF specific = {} THEN ordered_fields
    ELSE LET f == CHOOSE x \in specific : \A y \in specific : x.order[1] <= y.order[1]
         IN  insert_ordered(SubSeq(ordered_fields, 1, f.order[1]) \o <<f>>
                                \o SubSeq(ordered_fields, f.order[1] + 1, Len(ordered_fields)),
                            specific \ {f})

create_prepared_fields(fields) ==
    insert_ordered(SelectSeq(fields, LAMBDA f : f.order = <<>>),
                   {fields[i] : i \in {j \in 1..Len(fields) : fields[j].order # <<>>}})

\* pub enum HandshakeNextState { #[bp(value = 1)] Status = 1, Login }
HandshakeNextStateVariants ==
    <<[ident |-> "Status", key_value |-> <<1>>], [ident |-> "Login", key_value |-> <<>>]>>

\* pub struct Handshake<'a>
HandshakeFields ==
    <<[ident |-> "protocol_version", ty |-> "i32", variant |-> "VarInt", order |-> <<>>],
      [ident |-> "server_address", ty |-> "&str", variant |-> "none", order |-> <<>>],
      [ident |-> "server_port", ty |-> "u16", variant |-> "none", order |-> <<>>],
      [ident |-> "next_state", ty |-> "HandshakeNextState", variant |-> "none", order |-> <<>>]>>

\* The enum arm of impl_derive: match self, write_key (ty = i32, variant =
\* VarInt), then the arm's fields (these arms have none).
write_enum_key(variants, object, out) ==
    LET prepared == create_prepared_variants(variants)
        arm == CHOOSE i \in 1..Len(prepared) : prepared[i].ident = object
    IN  Ok({}, var_write_variant(SignedBits(prepared[arm].value, 32), out))

\* write_ts: the write of one field, by its variant or else its type.
write_ts(field, value, out) ==
    CASE field.variant = "VarInt" -> Ok({}, var_write_variant(SignedBits(value, 32), out))
      [] field.ty = "&str" -> write_str_with_limit(value, DEFAULT_LIMIT, out)
      [] field.ty = "u16" -> Ok({}, out \o to_be_bytes(BitsOf(value), 2))
      [] field.ty = "HandshakeNextState" -> write_enum_key(HandshakeNextStateVariants, value, out)

\* write_fields: the prepared fields in order, each write followed by ?.
RECURSIVE write_fields(_, _, _)
write_fields(prepared, object, out) ==
    IF prepared = <<>> THEN Ok({}, out)
    ELSE LET w == write_ts(Head(prepared), object[Head(prepared).ident], out) IN
         IF w.kind # "Ok" THEN w ELSE write_fields(Tail(prepared), object, w.rest)

\* <Handshake as ProtocolWritable>::write
write_struct(fields, object, out) == write_fields(create_prepared_fields(fields), object, out)

-----------------------------------------------------------------------------
(* Handshake: the packets written *)

Localhost == <<108, 111, 99, 97, 108, 104, 111, 115, 116>>

HandshakeInputs ==
    [protocol_version : {761, 0, 47, 127, -1},
     server_address : {Localhost, <<>>, <<97>>},
     server_port : {25565, 0, 80, 65535},
     next_state : {"Status", "Login"}]

HandshakeInit ==
    /\ build \in Builds
    /\ pc = "hs_start"
    /\ input \in HandshakeInputs
    /\ writer = <<>>
    /\ cursors = <<>>
    /\ call = NoCall
    /\ result = NoResult
    /\ packer = NoPacker
    /\ unpacker = NoUnpacker
    /\ owned = NoOwned

HandshakeWrite ==
    /\ pc = "hs_start"
    /\ LET w == write_struct(HandshakeFields, input, writer) IN
        /\ result' = [w EXCEPT !.rest = <<>>]
        /\ writer' = w.rest
    /\ pc' = "hs_written"
    /\ call' = [op |-> "write", on |-> 0, length |-> 0, before |-> cursors]
    /\ UNCHANGED <<build, input, cursors, packer, unpacker, owned>>

HandshakeNext == HandshakeWrite

SpecHandshake == HandshakeInit /\ [][HandshakeNext]_vars

HandshakeExample ==
    [protocol_version |-> 761, server_address |-> Localhost,
     server_port |-> 25565, next_state |-> "Login"]

\* C3: the Handshake (761, "localhost", 25565, Login) is written as
\* f9 05 09 6c 6f 63 61 6c 68 6f 73 74 63 dd 02; in general the fields
\* follow in declaration order: the version as VarInt, the address as its
\* byte length and its bytes, the port as big-endian u16, the state as key
\* 1 (Status) or 2 (Login).
HandshakeWireBytes ==
    pc = "hs_written" =>
        /\ result.kind = "Ok"
        /\ input = HandshakeExample =>
                writer = <<249, 5, 9, 108, 111, 99, 97, 108, 104, 111, 115, 116, 99, 221, 2>>
        /\ LET n == Len(writer)
               a == Len(input.server_address)
               k == n - a - 4
           IN  /\ k = (IF input.protocol_version < 0 THEN 5
                       ELSE IF input.protocol_version < 128 THEN 1 ELSE 2)
               /\ input.protocol_version \in 0..127 => writer[1] = input.protocol_version
               /\ writer[k + 1] = a
               /\ SubSeq(writer, k + 2, k + 1 + a) = input.server_address
               /\ writer[n - 2] = input.server_port \div 256
               /\ writer[n - 1] = input.server_port % 256
               /\ writer[n] = (IF input.next_state = "Login" THEN 2 ELSE 1)

HandshakeExampleWritten ==
    pc = "hs_written" /\ input = HandshakeExample /\ Len(writer) = 15

-----------------------------------------------------------------------------
(* Strings: the strings written and the buffers read *)

MaxShort == 3
StrSlack == 1
MaxPayload == 200

\* count copies of a character's UTF-8 bytes
Repeat(unit, count) == [i \in 1..(Len(unit) * count) |-> unit[((i - 1) % Len(unit)) + 1]]

\* Lengths at zero and around the limit.
StrLengths(LIMIT) == (0..MaxShort) \cup ((LIMIT - StrSlack)..(LIMIT + StrSlack))

\* Length prefixes sent by a peer: small ones, those around the limit, and the
\* spec's 32768.
StrPrefixes(LIMIT) == StrLengths(LIMIT) \cup {127, 128, 255, 256, 32768}

StrInit ==
    /\ build \in Builds
    /\ pc = "str_start"
    /\ \E LIMIT \in {DEFAULT_LIMIT, CHAT_LIMIT} :
        \/ \E n \in StrLengths(LIMIT), before \in {<<>>, <<7>>} :
                input = [kind |-> "write", LIMIT |-> LIMIT, str |-> Repeat(<<97>>, n),
                         prefix |-> n, before |-> before]
        \/ \E prefix \in StrPrefixes(LIMIT), m \in {0, MaxShort, MaxPayload} :
                input = [kind |-> "raw", LIMIT |-> LIMIT, str |-> Repeat(<<97>>, m),
                         prefix |-> prefix, before |-> <<>>]
    /\ writer = input.before
    /\ cursors = <<>>
    /\ call = NoCall
    /\ result = NoResult
    /\ packer = NoPacker
    /\ unpacker = NoUnpacker
    /\ owned = NoOwned

\* <&str as ProtocolWritable>::write, or the chat / JSON writer, by LIMIT
StrWrite ==
    /\ pc = "str_start"
    /\ input.kind = "write"
    /\ LET w == write_str_with_limit(input.str, input.LIMIT, writer) IN
        /\ result' = [w EXCEPT !.rest = <<>>]
        /\ writer' = w.rest
    /\ pc' = "str_written"
    /\ call' = [op |-> "write_str_with_limit", on |-> 0, length |-> input.LIMIT, before |-> cursors]
    /\ UNCHANGED <<build, input, cursors, packer, unpacker, owned>>

\* A peer's buffer: the VarInt of its length prefix, then its payload.
PeerBuffer == var_write_variant(SignedBits(input.prefix, 32), <<>>) \o input.str

\* read_str_with_limit on the peer's buffer
StrRead ==
    /\ pc = "str_start"
    /\ input.kind = "raw"
    /\ LET r == read_str_with_limit(PeerBuffer, input.LIMIT, build) IN
        /\ result' = r
        /\ cursors' = <<r.rest>>
    /\ pc' = "str_read"
    /\ call' = [op |-> "read_str_with_limit", on |-> 1, length |-> input.LIMIT, before |-> cursors]
    /\ UNCHANGED <<build, input, writer, packer, unpacker, owned>>

StrNext == StrWrite \/ StrRead

SpecStr == StrInit /\ [][StrNext]_vars

\* C5: writing a string longer than the limit returns "too long" and appends
\* nothing; reading a string whose length prefix encodes a value above the
\* limit returns a malformed error and takes no payload byte.
StrLimitEnforced ==
    /\ (pc = "str_written" /\ Len(input.str) > input.LIMIT) =>
        /\ result.kind = "Any"
        /\ result.val = "Too long string"
        /\ writer = input.before
    /\ (pc = "str_read" /\ input.prefix > input.LIMIT) =>
        /\ result.kind = "Any"
        /\ result.rest = input.str

-----------------------------------------------------------------------------
(* BlockPosition over Vector3D<i32> *)

\* <u64 as ProtocolReadable>::read: eight bytes, big-endian
read_u64(slice) ==
    LET taken == take_bytes(slice, 8) IN
    IF taken.kind # "Ok" THEN taken ELSE Ok(from_be_bytes(taken.val), taken.rest)

\* The word in the layout x << 38 | y << 26 | z
block_position_word_old_layout(object) ==
    Shl(SignedBits(object.x, 64) \cap 0..25, 38, 64)
        \cup Shl(SignedBits(object.y, 64) \cap 0..11, 26, 64)
        \cup (SignedBits(object.z, 64) \cap 0..25)

\* The i64 that write_variant hands to i64::write:
\* ((x as i64 & 0x3FFFFFF) << 38) | ((z as i64 & 0x3FFFFFF) << 12) | (y as i64 & 0xFFF)
block_position_word(object) ==
    Shl(SignedBits(object.x, 64) \cap 0..25, 38, 64)
        \cup Shl(SignedBits(object.z, 64) \cap 0..25, 12, 64)
        \cup (SignedBits(object.y, 64) \cap 0..11)

\* BlockPosition::write_variant
block_position_write_variant(object, out) ==
    Ok({}, out \o to_be_bytes(block_position_word(object), 8))

\* read_variant as it would be without the sign adjustment
block_position_read_unsigned(slice) ==
    LET value == read_u64(slice) IN
    IF value.kind # "Ok" THEN value
    ELSE Ok([x |-> NatOf(Shr(value.val, 38) \cap 0..31),
             y |-> NatOf(value.val \cap 0..11),
             z |-> NatOf(Shr(value.val, 12) \cap 0..25)], value.rest)

\* BlockPosition::read_variant: the three fields, each lowered by 2^26
\* (2^12 for y) when its top bit is set.
block_position_read_variant(slice) ==
    LET value == read_u64(slice) IN
    IF value.kind # "Ok" THEN value
    ELSE LET x == NatOf(Shr(value.val, 38) \cap 0..31)
             y == NatOf(value.val \cap 0..11)
             z == NatOf(Shr(value.val, 12) \cap 0..25)
         IN  Ok([x |-> IF x >= 33554432 THEN x - 67108864 ELSE x,
                 y |-> IF y >= 2048 THEN y - 4096 ELSE y,
                 z |-> IF z >= 33554432 THEN z - 67108864 ELSE z], value.rest)

-----------------------------------------------------------------------------
(* BlockPosition: the positions written and read back *)

PosSpread == 1

\* Values within PosSpread of lo, of 0 and of hi, on both sides of each.
Around(lo, hi) ==
    ((lo - PosSpread)..(lo + PosSpread)) \cup ((0 - PosSpread)..PosSpread)
        \cup ((hi - PosSpread)..(hi + PosSpread))

BlockPositions ==
    [x : Around(-33554432, 33554431), y : Around(-2048, 2047), z : Around(-33554432, 33554431)]
        \cup {[x |-> 1, y |-> 2, z |-> 3]}

InRange(object) ==
    /\ object.x \in -33554432..33554431
    /\ object.z \in -33554432..33554431
    /\ object.y \in -2048..2047

PosInit ==
    /\ build \in Builds
    /\ pc = "pos_start"
    /\ input \in BlockPositions
    /\ writer = <<>>
    /\ cursors = <<>>
    /\ call = NoCall
    /\ result = NoResult
    /\ packer = NoPacker
    /\ unpacker = NoUnpacker
    /\ owned = NoOwned

PosWrite ==
    /\ pc = "pos_start"
    /\ LET w == block_position_write_variant(input, writer) IN
        /\ result' = [w EXCEPT !.rest = <<>>]
        /\ writer' = w.rest
    /\ pc' = "pos_written"
    /\ call' = [op |-> "write_variant", on |-> 0, length |-> 0, before |-> cursors]
    /\ UNCHANGED <<build, input, cursors, packer, unpacker, owned>>

\* read_variant on a cursor over the bytes written, followed by one more byte
PosRead ==
    /\ pc = "pos_written"
    /\ LET r == block_position_read_variant(writer \o <<255>>) IN
        /\ result' = r
        /\ cursors' = <<r.rest>>
    /\ pc' = "pos_read"
    /\ call' = [op |-> "read_variant", on |-> 1, length |-> 0, before |-> cursors]
    /\ UNCHANGED <<build, input, writer, packer, unpacker, owned>>

PosNext == PosWrite \/ PosRead

SpecBlockPos == PosInit /\ [][PosNext]_vars

\* C6: for -33554432 <= x, z <= 33554431 and -2048 <= y <= 2047, reading the
\* 8 bytes written by the BlockPosition variant returns (x, y, z) unchanged.
BlockPositionRoundTrip ==
    /\ pc = "pos_written" => Len(writer) = 8
    /\ (pc = "pos_read" /\ InRange(input)) =>
        /\ result.kind = "Ok"
        /\ result.val = input
        /\ result.rest = <<255>>

BlockPositionExtremesRead ==
    /\ pc = "pos_read"
    /\ input = [x |-> -33554432, y |-> -2048, z |-> -33554432]
    /\ result.val = input

\* C7 as stated: (1, 2, 3) is written as the u64 0x0000010000003002, the
\* bytes 00 00 01 00 00 00 30 02.
BlockPositionExampleAsStated ==
    (pc = "pos_written" /\ input = [x |-> 1, y |-> 2, z |-> 3]) =>
        /\ writer = <<0, 0, 1, 0, 0, 0, 48, 2>>
        /\ from_be_bytes(writer) = {1, 12, 13, 40}

\* C7 amended: (1, 2, 3) is written as the big-endian u64
\* ((1 & 0x3FFFFFF) << 38) | ((3 & 0x3FFFFFF) << 12) | (2 & 0xFFF), which is
\* 0x0000004000003002, the bytes 00 00 00 40 00 00 30 02.
BlockPositionExample ==
    (pc = "pos_written" /\ input = [x |-> 1, y |-> 2, z |-> 3]) =>
        /\ writer = <<0, 0, 0, 64, 0, 0, 48, 2>>
        /\ from_be_bytes(writer) = {38} \cup {12, 13} \cup {1}

BlockPositionExampleWritten ==
    pc = "pos_written" /\ input = [x |-> 1, y |-> 2, z |-> 3] /\ Len(writer) = 8

-----------------------------------------------------------------------------
(* The slice cursor: a buffer, the cursor over it and the cursors forked *)

MaxBufLen == 5
MaxCursors == 2

\* Buffers of pairwise different bytes, so that a slice shows where it came from.
Buffers ==
    {[i \in 1..n |-> i] : n \in 0..MaxBufLen} \cup {[i \in 1..n |-> 256 - i] : n \in 0..MaxBufLen}

CursorInit ==
    /\ build \in Builds
    /\ pc = "cursor"
    /\ input \in [buf : Buffers]
    /\ writer = <<>>
    /\ cursors = <<input.buf>>
    /\ call = NoCall
    /\ result = NoResult
    /\ packer = NoPacker
    /\ unpacker = NoUnpacker
    /\ owned = NoOwned

TakeByte(i) ==
    /\ pc = "cursor"
    /\ LET r == take_byte(cursors[i]) IN
        /\ result' = r
        /\ cursors' = [cursors EXCEPT ![i] = r.rest]
    /\ call' = [op |-> "take_byte", on |-> i, length |-> 1, before |-> cursors]
    /\ UNCHANGED <<build, pc, input, writer, packer, unpacker, owned>>

TakeBytes(i, length) ==
    /\ pc = "cursor"
    /\ LET r == take_bytes(cursors[i], length) IN
        /\ result' = r
        /\ cursors' = [cursors EXCEPT ![i] = r.rest]
    /\ call' = [op |-> "take_bytes", on |-> i, length |-> length, before |-> cursors]
    /\ UNCHANGED <<build, pc, input, writer, packer, unpacker, owned>>

TakeCursor(i) ==
    /\ pc = "cursor"
    /\ Len(cursors) < MaxCursors
    /\ cursors' = Append(cursors, take_cursor(cursors[i]))
    /\ result' = Ok(take_cursor(cursors[i]), cursors[i])
    /\ call' = [op |-> "take_cursor", on |-> i, length |-> 0, before |-> cursors]
    /\ UNCHANGED <<build, pc, input, writer, packer, unpacker, owned>>

CursorNext ==
    \E i \in 1..Len(cursors) :
        \/ TakeByte(i)
        \/ \E length \in 0..(MaxBufLen + 1) : TakeBytes(i, length)
        \/ TakeCursor(i)

SpecCursor == CursorInit /\ [][CursorNext]_vars

\* C4: a successful take_bytes(N) returns exactly the next N bytes of the
\* buffer and lowers remaining_bytes by N; a take that demands more than
\* remaining_bytes returns End, never a shorter slice; remaining_bytes never
\* increases; a cursor from take_cursor starts where its origin stands, and a
\* take on one cursor leaves every other cursor as it was.
CursorContract ==
    call.op \in {"take_byte", "take_bytes", "take_cursor"} =>
        LET i == call.on
            before == call.before[i]
            pos == Len(input.buf) - Len(before)
            n == call.length
        IN  /\ \A j \in 1..Len(call.before) :
                    /\ remaining_bytes(cursors[j]) <= remaining_bytes(call.before[j])
                    /\ j # i => cursors[j] = call.before[j]
            /\ \A j \in 1..Len(cursors) :
                    cursors[j] = SubSeq(input.buf, Len(input.buf) - Len(cursors[j]) + 1, Len(input.buf))
            /\ call.op \in {"take_byte", "take_bytes"} =>
                    /\ Len(cursors) = Len(call.before)
                    /\ IF n <= Len(before)
                       THEN /\ result.kind = "Ok"
                            /\ remaining_bytes(cursors[i]) = remaining_bytes(before) - n
                            /\ call.op = "take_bytes" => result.val = SubSeq(input.buf, pos + 1, pos + n)
                            /\ call.op = "take_byte" => result.val = input.buf[pos + 1]
                       ELSE result.kind = "End"
            /\ call.op = "take_cursor" =>
                    /\ Len(cursors) = Len(call.before) + 1
                    /\ cursors[Len(cursors)] = before
                    /\ cursors[i] = before

ForkedCursorsApart ==
    /\ call.op = "take_bytes"
    /\ result.kind = "Ok"
    /\ call.length >= 2
    /\ Len(cursors) >= 2
    /\ cursors[1] # cursors[2]

-----------------------------------------------------------------------------
(* GapCompactLongsWriter, GapCompactLongsReader, compact_longs_array_length *)

\* Option<u64>
Some(v) == <<v>>
None == <<>>

\* GapCompactLongsWriter::new
packer_new(bits) ==
    [current |-> {}, bits |-> bits, elements_in_long |-> 64 \div bits,
     gap |-> 64 % bits, current_index |-> 0]

\* debug_assert!(number < (1 << (self.bits + 1))) panics: the assertion is
\* compiled in with debug assertions only; the shift amount is masked to six
\* bits when overflow checks are off and the shift panics for an amount of 64
\* or more when they are on.
packer_assert_fails(p, number, bld) ==
    /\ bld.debug_assertions
    /\ \/ p.bits + 1 >= 64 /\ bld.overflow_checks
       \/ \E b \in number : b >= (p.bits + 1) % 64

\* write as it would be if entries started at bit 0 of the word
packer_write_no_gap(p, number, out) ==
    LET full == p.current_index = p.elements_in_long
        current == IF full THEN {} ELSE p.current
        current_index == IF full THEN 0 ELSE p.current_index
    IN  [packer |-> [p EXCEPT !.current = current \cup Shl(number, current_index * p.bits, 64),
                              !.current_index = current_index + 1],
         out |-> IF full THEN out \o to_be_bytes(p.current, 8) ELSE out]

\* GapCompactLongsWriter::write: the fields and the writer after the call
packer_write(p, number, out) ==
    LET full == p.current_index = p.elements_in_long
        current == IF full THEN {} ELSE p.current
        current_index == IF full THEN 0 ELSE p.current_index
    IN  [packer |-> [p EXCEPT !.current = current \cup Shl(number, current_index * p.bits + p.gap, 64),
                              !.current_index = current_index + 1],
         out |-> IF full THEN out \o to_be_bytes(p.current, 8) ELSE out]

\* finish as it would be if a full accumulator had been flushed by the write
\* that filled it
packer_finish_partial_only(p, out) ==
    IF p.current_index # 0 /\ p.current_index # p.elements_in_long
    THEN out \o to_be_bytes(p.current, 8) ELSE out

\* GapCompactLongsWriter::finish: the writer after the call
packer_finish(p, out) ==
    IF p.current_index # 0 THEN out \o to_be_bytes(p.current, 8) ELSE out

\* compact_longs_array_length
compact_longs_array_length(elements, bits) ==
    LET elements_in_long == 64 \div bits IN
    (elements \div elements_in_long) + (IF elements % elements_in_long = 0 THEN 0 ELSE 1)

\* new as it would be if the last word were always read in full
unpacker_new_whole_words(words, bits, COUNT) ==
    [iterator |-> SubSeq(words, 3, Len(words)),
     current_long |-> Shr(words[1], 64 % bits),
     next_long |-> IF Len(words) >= 2 THEN Some(words[2]) ELSE None,
     bits |-> bits, gap |-> 64 % bits, elements_in_long |-> 64 \div bits,
     mask |-> 0..((bits % 64) - 1),
     end_index |-> 64 \div bits,
     current_index |-> 0,
     yielded |-> <<>>]

\* GapCompactLongsReader::<I, COUNT>::new when the iterator yields a first
\* word; iterator holds the words not yet drawn.  mask is (1 << bits) - 1 with
\* the shift amount masked to six bits.
unpacker_new(words, bits, COUNT) ==
    [iterator |-> SubSeq(words, 3, Len(words)),
     current_long |-> Shr(words[1], 64 % bits),
     next_long |-> IF Len(words) >= 2 THEN Some(words[2]) ELSE None,
     bits |-> bits, gap |-> 64 % bits, elements_in_long |-> 64 \div bits,
     mask |-> 0..((bits % 64) - 1),
     end_index |-> IF COUNT % (64 \div bits) = 0 THEN 64 \div bits ELSE COUNT % (64 \div bits),
     current_index |-> 0,
     yielded |-> <<>>]

\* <GapCompactLongsReader as Iterator>::next: the fields after the call, the
\* item returned appended to yielded.
unpacker_next(u) ==
    IF u.next_long = None /\ u.current_index = u.end_index
    THEN [u EXCEPT !.yielded = Append(@, None)]
    ELSE LET advance == u.current_index = u.elements_in_long
             current_long == IF advance THEN Shr(u.next_long[1], u.gap) ELSE u.current_long
         IN  [u EXCEPT !.current_index = (IF advance THEN 0 ELSE @) + 1,
                       !.current_long = Shr(current_long, u.bits),
                       !.next_long = IF ~advance THEN @
                                     ELSE IF u.iterator = <<>> THEN None ELSE Some(Head(u.iterator)),
                       !.iterator = IF advance /\ u.iterator # <<>> THEN Tail(@) ELSE @,
                       !.yielded = Append(@, Some(current_long \cap u.mask))]

-----------------------------------------------------------------------------
(* The packer driven entry by entry, and the reader drawn item by item      *)

MaxEntries == 48
MaxLenEntries == 17

TestedBits == {4, 5, 6, 9, 15}
AllBits == 1..64

\* The entries of tests::gap_compact_longs_writer_test, one word's worth
TestEntries == <<1, 7, 31, 127, 511, 0, 0>>

Patterns == {"test", "zeros", "ones", "ramp", "stride"}

\* The i-th entry written, a value in [0, 2^bits)
Entry(pattern, i, bits) ==
    (CASE pattern = "test" -> BitsOf(TestEntries[((i - 1) % 7) + 1])
       [] pattern = "zeros" -> {}
       [] pattern = "ones" -> 0..63
       [] pattern = "ramp" -> BitsOf(i - 1)
       [] pattern = "stride" -> BitsOf(7 * i + 3))
    \cap 0..(bits - 1)

\* The words a finished buffer holds, as u64::read draws them
Words(bytes) ==
    [k \in 1..(Len(bytes) \div 8) |-> from_be_bytes(SubSeq(bytes, 8 * k - 7, 8 * k))]

PackInit(widths, patterns) ==
    /\ build \in Builds
    /\ pc = "packing"
    /\ input \in [bits : widths, pattern : patterns]
    /\ writer = <<>>
    /\ cursors = <<>>
    /\ call = NoCall
    /\ result = NoResult
    /\ packer = packer_new(input.bits)
    /\ unpacker = NoUnpacker
    /\ owned = NoOwned

\* One write call; call.on counts the write calls made.
PackWrite(bound) ==
    /\ pc = "packing"
    /\ call.on < bound
    /\ LET number == Entry(input.pattern, call.on + 1, input.bits) IN
       IF packer_assert_fails(packer, number, build)
       THEN /\ pc' = "panicked"
            /\ result' = Panic(<<>>)
            /\ UNCHANGED <<packer, writer>>
       ELSE LET w == packer_write(packer, number, writer) IN
            /\ packer' = w.packer
            /\ writer' = w.out
            /\ result' = Ok(0, <<>>)
            /\ UNCHANGED pc
    /\ call' = [call EXCEPT !.op = "write", !.on = @ + 1]
    /\ UNCHANGED <<build, input, cursors, unpacker, owned>>

\* finish; call.length is the number of words the writer held before it
PackFinish ==
    /\ pc = "packing"
    /\ writer' = packer_finish(packer, writer)
    /\ pc' = "finished"
    /\ call' = [call EXCEPT !.op = "finish", !.length = Len(writer) \div 8]
    /\ result' = Ok(0, <<>>)
    /\ UNCHANGED <<build, input, cursors, packer, unpacker, owned>>

\* GapCompactLongsReader::<_, COUNT>::new over the words written, COUNT being
\* the number of entries written; None when there is no first word.
UnpackNew ==
    /\ pc = "finished"
    /\ IF Words(writer) = <<>>
       THEN /\ pc' = "no_reader"
            /\ UNCHANGED unpacker
       ELSE /\ pc' = "unpacking"
            /\ unpacker' = unpacker_new(Words(writer), input.bits, call.on)
    /\ UNCHANGED <<build, input, writer, cursors, call, result, packer, owned>>

\* One next call; the reader is drawn until it has answered None once.
UnpackNext ==
    /\ pc = "unpacking"
    /\ \A k \in DOMAIN unpacker.yielded : unpacker.yielded[k] # None
    /\ unpacker' = unpacker_next(unpacker)
    /\ UNCHANGED <<build, pc, input, writer, cursors, call, result, packer, owned>>

CompactInit == PackInit(TestedBits, Patterns)

CompactNext ==
    \/ PackWrite(MaxEntries)
    \/ PackFinish
    \/ UnpackNew
    \/ UnpackNext

SpecCompact == CompactInit /\ [][CompactNext]_vars

CompactLenInit == PackInit(AllBits, {"zeros", "ones", "ramp"})

CompactLenNext ==
    \/ PackWrite(MaxLenEntries)
    \/ PackFinish

SpecCompactLen == CompactLenInit /\ [][CompactLenNext]_vars

\* C8: N >= 1 values below 2^bits written at a width in {4, 5, 6, 9, 15} and
\* finished are read back by a reader with COUNT = N as those N values in
\* write order and then None; no padding entry of the last word is returned.
CompactRoundTrip ==
    /\ (pc = "no_reader") => call.on = 0
    /\ (pc = "unpacking") =>
        /\ Len(unpacker.yielded) <= call.on + 1
        /\ \A k \in 1..Len(unpacker.yielded) :
              unpacker.yielded[k] =
                  IF k <= call.on THEN Some(Entry(input.pattern, k, input.bits)) ELSE None

CompactReadToTheEnd ==
    /\ pc = "unpacking"
    /\ input.bits = 15
    /\ input.pattern = "stride"
    /\ call.on = 5
    /\ Len(unpacker.yielded) = 6

\* ceil(n / d)
CeilDiv(n, d) == CHOOSE k \in 0..n : k * d >= n /\ (k = 0 \/ (k - 1) * d < n)

\* C9: for every width in 1..64 and every N, compact_longs_array_length(N,
\* bits) is ceil(N / floor(64 / bits)), and N writes of values below 2^bits
\* followed by finish go through and have emitted exactly that many 8-byte
\* words.
CompactLength ==
    /\ pc # "panicked"
    /\ (pc = "finished") =>
        /\ compact_longs_array_length(call.on, input.bits) = CeilDiv(call.on, 64 \div input.bits)
        /\ Len(writer) = 8 * compact_longs_array_length(call.on, input.bits)

\* C20 as stated: after exactly k * floor(64 / bits) write calls and before
\* finish the writer has received k words, and finish emits one further
\* word exactly when the accumulator holds a partial word with at least one
\* entry.
PackerFlushAsStated ==
    LET n == call.on
        words == Len(writer) \div 8
    IN  /\ (pc = "packing" /\ n % packer.elements_in_long = 0)
                => words = n \div packer.elements_in_long
        /\ (pc = "finished") =>
                /\ words \in {call.length, call.length + 1}
                /\ (words = call.length + 1)
                        <=> (packer.current_index \in 1..(packer.elements_in_long - 1))

\* C20: a full accumulator is flushed by the next write, not by the write
\* that fills it: after n >= 1 write calls and before finish the writer has
\* received floor((n - 1) / floor(64 / bits)) words, which is k - 1 after
\* exactly k * floor(64 / bits) calls, and the accumulator holds the other
\* entries, at least one; finish emits one further word exactly when at least
\* one write call was made, a full accumulator included.
PackerFlushTiming ==
    LET n == call.on
        words == Len(writer) \div 8
        lagging == IF n = 0 THEN 0 ELSE (n - 1) \div packer.elements_in_long
    IN  /\ (pc = "packing") =>
                /\ Len(writer) = 8 * lagging
                /\ packer.current_index = n - (lagging * packer.elements_in_long)
                /\ (n >= 1) => packer.current_index \in 1..packer.elements_in_long
        /\ (pc = "finished") =>
                /\ call.length = lagging
                /\ Len(writer) = 8 * (call.length + (IF n >= 1 THEN 1 ELSE 0))

\* Two words' worth of entries written and finished: one word before finish,
\* the second from finish
PackerFullAtFinish ==
    /\ pc = "finished"
    /\ call.on = 2 * packer.elements_in_long
    /\ packer.current_index = packer.elements_in_long
    /\ call.length = 1
    /\ Len(writer) = 16

\* The entries [1, 7, 31, 127, 511] written at 9 bits and finished
CompactExamplePacked ==
    /\ pc \in {"finished", "unpacking"}
    /\ input.bits = 9
    /\ input.pattern = "test"
    /\ call.on = 5

\* C10 as stated: the one word emitted for [1, 7, 31, 127, 511] at 9 bits is
\* 0x3FE3F8FC7F02.
CompactExampleAsStated ==
    CompactExamplePacked =>
        /\ writer = <<0, 0, 63, 227, 248, 252, 127, 2>>
        /\ Words(writer) = <<{1} \cup (8..14) \cup (18..23) \cup (27..33) \cup (37..45)>>

\* C10: packing [1, 7, 31, 127, 511] at 9 bits emits one big-endian word, the
\* value 0b111111111_001111111_000011111_000000111_000000001_0, which is
\* 0x3FE7F0F81C02: entry i lies at bits 1 + 9i .. 9 + 9i, bit 0 is clear, and
\* a reader with COUNT = 5 returns the five entries.
CompactExample ==
    CompactExamplePacked =>
        /\ writer = <<0, 0, 63, 231, 240, 248, 28, 2>>
        /\ Words(writer) = <<{1} \cup (10..12) \cup (19..23) \cup (28..34) \cup (37..45)>>
        /\ \A i \in 0..4 :
              Shr(Words(writer)[1], 1 + 9 * i) \cap (0..8) = BitsOf(TestEntries[i + 1])
        /\ 0 \notin Words(writer)[1]
        /\ (pc = "unpacking") =>
              \A k \in 1..Len(unpacker.yielded) :
                  unpacker.yielded[k] = IF k <= 5 THEN Some(BitsOf(TestEntries[k])) ELSE None

CompactExampleUnpacked ==
    /\ CompactExamplePacked
    /\ pc = "unpacking"
    /\ Len(unpacker.yielded) = 6

-----------------------------------------------------------------------------
(* PalettedContainer<T, MAX_VALUE, LENGTH> *)

\* const_log2_ceil, for values up to 2^30
const_log2_ceil(value) ==
    IF value <= 1 THEN 0
    ELSE CHOOSE counter \in 1..30 :
            /\ value <= 2^counter
            /\ \A c \in 1..(counter - 1) : value > 2^c

\* <BlockStatesBits / BiomesBits as PalettedContainerBitsDeterminer>::get
bits_determiner(T, values) ==
    IF T = "BlockStatesBits" /\ values <= 16 THEN 4 ELSE const_log2_ceil(values)

\* The two containers of ChunkSectionData.  MAX_VALUE stands for the
\* generated bird_data::BLOCK_STATE_COUNT and bird_data::BIOME_COUNT.
BlockStatesDomain == [T |-> "BlockStatesBits", MAX_VALUE |-> 32768, LENGTH |-> 4096]
BiomesDomain == [T |-> "BiomesBits", MAX_VALUE |-> 64, LENGTH |-> 64]

\* PalettedContainer::MAX_BITS
MAX_BITS(dom) == const_log2_ceil(dom.MAX_VALUE)

\* new_single, new_indirect, new_direct
new_single(value) == [form |-> "Single", palette |-> <<value>>, data |-> <<>>]
new_indirect(values, indexes) == [form |-> "Indirect", palette |-> values, data |-> indexes]
new_direct(values) == [form |-> "Direct", palette |-> <<>>, data |-> values]

\* The value of an i32 word
i32_value(word) ==
    IF 31 \in word THEN NatOf(word \cap 0..30) - 2147483647 - 1 ELSE NatOf(word \cap 0..30)

\* LengthProvidedArray::<i32, VarInt, i32, i32>::write_variant
i32_array_write(object, out) ==
    LET header == var_write_variant(SignedBits(Len(object), 32), out)
        body == [k \in 1..(4 * Len(object)) |->
                    to_be_bytes(SignedBits(object[((k - 1) \div 4) + 1], 32), 4)[((k - 1) % 4) + 1]]
    IN  header \o body

\* LengthProvidedArray::<i32, VarInt, i32, i32>::read_variant
i32_array_read(slice, bld) ==
    LET length == var_read_variant("VarInt", slice, bld) IN
    IF length.kind # "Ok" THEN length
    ELSE LET n == NatOf(length.val)
             whole == remaining_bytes(length.rest) \div 4
         IN  IF n > whole
             THEN ErrEnd(SubSeq(length.rest, 4 * whole + 1, Len(length.rest)))
             ELSE Ok([k \in 1..n |-> i32_value(from_be_bytes(SubSeq(length.rest, 4 * k - 3, 4 * k)))],
                     SubSeq(length.rest, 4 * n + 1, Len(length.rest)))

\* write_all: write applied to entries lo .. hi - 1 of the iterator in turn.
\* The left fold is evaluated by halves, the state after the first half
\* being computed before the second half is entered.
RECURSIVE packer_write_all(_, _, _, _)
packer_write_all(state, entries, lo, hi) ==
    IF hi <= lo THEN state
    ELSE IF hi = lo + 1
    THEN packer_write(state.packer, BitsOf(entries[lo]), state.out)
    ELSE LET mid == (lo + hi) \div 2
             left == packer_write_all(state, entries, lo, mid)
         IN  IF Len(left.out) >= Len(state.out)
             THEN packer_write_all(left, entries, mid, hi)
             ELSE left

\* GapCompactLongsWriter::new(writer, bits).write_all_and_finish(entries)
write_all_and_finish(bits, entries, out, bld) ==
    IF \E i \in DOMAIN entries : packer_assert_fails(packer_new(bits), BitsOf(entries[i]), bld)
    THEN Panic(out)
    ELSE LET done == packer_write_all([packer |-> packer_new(bits), out |-> out],
                                      entries, 1, Len(entries) + 1)
         IN  Ok({}, packer_finish(done.packer, done.out))

\* The bits byte, the optional palette, the word count and the packed words.
\* With bits = 0 the division 64 / bits in compact_longs_array_length panics.
paletted_write_packed(bits, header, entries, bld) ==
    IF bits = 0 THEN Panic(header)
    ELSE write_all_and_finish(
            bits, entries,
            var_write_variant(SignedBits(compact_longs_array_length(Len(entries), bits), 32), header),
            bld)

\* <PalettedContainer as ProtocolWritable>::write
paletted_write(dom, object, out, bld) ==
    CASE object.form = "Single" ->
            Ok({}, var_write_variant({}, var_write_variant(SignedBits(object.palette[1], 32),
                                                             Append(out, 0))))
      [] object.form = "Indirect" ->
            LET bits_per_entry == bits_determiner(dom.T, Len(object.palette)) IN
            paletted_write_packed(bits_per_entry,
                                  i32_array_write(object.palette, Append(out, bits_per_entry)),
                                  object.data, bld)
      [] object.form = "Direct" ->
            paletted_write_packed(MAX_BITS(dom), Append(out, MAX_BITS(dom)), object.data, bld)

\* One call of next by collect, none once the reader has answered None.
\* The calls 1 .. n are evaluated by halves.
RECURSIVE unpacker_collect(_, _)
unpacker_collect(u, n) ==
    IF n = 0 THEN u
    ELSE IF n = 1
    THEN (IF u.yielded # <<>> /\ u.yielded[Len(u.yielded)] = None THEN u ELSE unpacker_next(u))
    ELSE LET half == unpacker_collect(u, n \div 2)
         IN  IF Len(half.yielded) >= Len(u.yielded)
             THEN unpacker_collect(half, n - (n \div 2))
             ELSE half

\* The packed part of read: the VarInt count, the debug assertion on it, a
\* GapCompactLongsReader::<_, LENGTH> over a ProtocolCursorIterator limited
\* to count words, collected into a [i32; LENGTH].
paletted_read_packed(dom, bits, slice, bld, what) ==
    LET count == var_read_variant("VarInt", slice, bld) IN
    IF count.kind # "Ok" THEN count
    ELSE IF bld.debug_assertions
            /\ i32_value(count.val) # compact_longs_array_length(dom.LENGTH, bits)
    THEN Panic(count.rest)
    ELSE LET available == remaining_bytes(count.rest) \div 8
             limit == IF i32_value(count.val) < 0 \/ i32_value(count.val) > available
                      THEN available ELSE i32_value(count.val)
             words == Words(SubSeq(count.rest, 1, 8 * limit))
         IN  IF words = <<>>
             THEN ErrAny("Empty array in paletted container", count.rest)
             ELSE LET u == unpacker_collect(unpacker_new(words, bits, dom.LENGTH), dom.LENGTH + 1)
                      drawn == Len(words) - Len(u.iterator)
                      rest == SubSeq(count.rest, 8 * drawn + 1, Len(count.rest))
                  IN  IF Len(u.yielded) = dom.LENGTH + 1 /\ u.yielded[dom.LENGTH + 1] = None
                      THEN Ok([k \in 1..dom.LENGTH |-> i32_value(u.yielded[k][1])], rest)
                      ELSE ErrAny(what, rest)

\* <PalettedContainer as ProtocolReadable>::read
paletted_read(dom, slice, bld) ==
    LET bits == take_byte(slice) IN
    IF bits.kind # "Ok" THEN bits
    ELSE IF bits.val = 0
    THEN LET single == var_read_variant("VarInt", bits.rest, bld) IN
         IF single.kind # "Ok" THEN single
         ELSE LET ignored == var_read_variant("VarInt", single.rest, bld) IN
              IF ignored.kind # "Ok" THEN ignored
              ELSE Ok(new_single(i32_value(single.val)), ignored.rest)
    ELSE IF bits.val < MAX_BITS(dom)
    THEN LET values == i32_array_read(bits.rest, bld) IN
         IF values.kind # "Ok" THEN values
         ELSE LET indexes == paletted_read_packed(dom, bits.val, values.rest, bld,
                                                  "Bad length of indexes") IN
              IF indexes.kind # "Ok" THEN indexes
              ELSE Ok(new_indirect(values.val, indexes.val), indexes.rest)
    ELSE LET direct == paletted_read_packed(dom, MAX_BITS(dom), bits.rest, bld,
                                            "Bad length of direct") IN
         IF direct.kind # "Ok" THEN direct
         ELSE Ok(new_direct(direct.val), direct.rest)

-----------------------------------------------------------------------------
(* PalettedContainer: the containers written and read back *)

PaletteSizes == {1, 2, 5, 16, 17, 40}
SingleValues == {0, 1, 63, 127, 128, 255, 256, 20000}
TrailLen == 3

\* Containers of the three forms within the domain's bounds
Containers(dom) ==
    {new_single(v) : v \in {x \in SingleValues : x < dom.MAX_VALUE}}
    \cup {new_indirect([k \in 1..K |-> (7 * k) % dom.MAX_VALUE],
                       [i \in 1..dom.LENGTH |-> (i * stride) % K]) :
            K \in PaletteSizes, stride \in {1, 3}}
    \cup {new_direct([i \in 1..dom.LENGTH |-> (i * stride) % dom.MAX_VALUE]) :
            stride \in {0, 1, 37}}

\* The value a container holds at index i (0-based)
lookup(object, i) ==
    CASE object.form = "Single" -> object.palette[1]
      [] object.form = "Indirect" -> object.palette[object.data[i + 1] + 1]
      [] object.form = "Direct" -> object.data[i + 1]

PalettedInit ==
    /\ build \in Builds
    /\ pc = "built"
    /\ \E dom \in {BlockStatesDomain, BiomesDomain} :
        \E object \in Containers(dom) :
            \E trail \in {<<>>, [i \in 1..TrailLen |-> 255]} :
                input = [dom |-> dom, object |-> object, trail |-> trail]
    /\ writer = <<>>
    /\ cursors = <<>>
    /\ call = NoCall
    /\ result = NoResult
    /\ packer = NoPacker
    /\ unpacker = NoUnpacker
    /\ owned = NoOwned

PalettedWrite ==
    /\ pc = "built"
    /\ LET r == paletted_write(input.dom, input.object, writer, build) IN
        /\ result' = [r EXCEPT !.rest = <<>>]
        /\ writer' = r.rest
        /\ pc' = IF r.kind = "Ok" THEN "written" ELSE "write_failed"
    /\ call' = [call EXCEPT !.op = "write"]
    /\ UNCHANGED <<build, input, cursors, packer, unpacker, owned>>

PalettedRead ==
    /\ pc = "written"
    /\ result' = paletted_read(input.dom, writer \o input.trail, build)
    /\ pc' = "read"
    /\ call' = [call EXCEPT !.op = "read"]
    /\ UNCHANGED <<build, input, writer, cursors, packer, unpacker, owned>>

PalettedNext == PalettedWrite \/ PalettedRead

SpecPaletted == PalettedInit /\ [][PalettedNext]_vars

\* C11: a container of any of the three forms, in the block-state and in the
\* biome domain, is written, and reading the bytes written succeeds, takes
\* exactly those bytes and yields a container of the same form holding the
\* same value at every index.
PalettedRoundTrip ==
    /\ pc # "write_failed"
    /\ (pc = "read") =>
        /\ result.kind = "Ok"
        /\ result.rest = input.trail
        /\ result.val.form = input.object.form
        /\ \A i \in 0..(input.dom.LENGTH - 1) : lookup(result.val, i) = lookup(input.object, i)

\* C22: an Indirect container whose palette holds exactly one value, in
\* either domain, is written without failure in the Indirect wire form (a
\* non-zero bits byte, the length-prefixed palette, the data length and the
\* packed indices), and reading those bytes yields an Indirect container
\* with that one-value palette, never a Single.
OneValuePalette ==
    (input.object.form = "Indirect" /\ Len(input.object.palette) = 1) =>
        /\ pc # "write_failed"
        /\ (pc \in {"written", "read"}) =>
              /\ writer[1] # 0
              /\ SubSeq(writer, 2, 6) = i32_array_write(input.object.palette, <<>>)
              /\ Len(writer) >= 6 + 1 + 8
        /\ (pc = "read") =>
              /\ result.kind = "Ok"
              /\ result.val.form = "Indirect"
              /\ result.val.palette = input.object.palette

-----------------------------------------------------------------------------
(* BitSet and OwnedBitSet *)

\* BitSet::get_word_index
get_word_index(index) == index \div 64

\* BitSet::get_bit_from_words: 1u64.overflowing_shl(index as u32) shifts by
\* index mod 64.
get_bit_from_words(words, index) ==
    IF get_word_index(index) < Len(words)
    THEN Some((index % 64) \in words[get_word_index(index) + 1])
    ELSE None

\* get_bit_from_raw with the byte taken in wire order
get_bit_from_raw_unreversed(raw, index) ==
    LET order == index \div 8 IN
    IF order < Len(raw) THEN Some((raw[order + 1] \div 2^(index % 8)) % 2 = 1) ELSE None

\* BitSet::get_bit_from_raw: the byte index with its low three bits
\* complemented; 1u8.overflowing_shl(index as u32) shifts by index mod 8.
get_bit_from_raw(raw, index) ==
    LET order == index \div 8
        reversed == (order - (order % 8)) + (7 - (order % 8))
    IN  IF reversed < Len(raw)
        THEN Some((raw[reversed + 1] \div 2^(index % 8)) % 2 = 1)
        ELSE None

\* bit_set.long_iter().for_each(|n| n.write(&mut raw)): every word as eight
\* big-endian bytes
write_longs(words) ==
    [k \in 1..(8 * Len(words)) |-> to_be_bytes(words[((k - 1) \div 8) + 1], 8)[((k - 1) % 8) + 1]]

\* <BorrowedLongArray as Iterator>::next over Longs, until None
RECURSIVE long_iter(_)
long_iter(longs) ==
    IF longs = <<>> THEN <<>> ELSE <<longs[1]>> \o long_iter(SubSeq(longs, 2, Len(longs)))

\* OwnedBitSet::clear as it would be if it reset the whole word
owned_clear_word(words, index) ==
    IF get_word_index(index) < Len(words)
    THEN [words EXCEPT ![get_word_index(index) + 1] = {}]
    ELSE words

\* OwnedBitSet::set
owned_set(words, index) ==
    LET word_index == get_word_index(index)
        resized == IF word_index >= Len(words)
                   THEN words \o [k \in 1..(word_index + 1 - Len(words)) |-> {}]
                   ELSE words
    IN  [resized EXCEPT ![word_index + 1] = @ \cup {index % 64}]

\* OwnedBitSet::clear
owned_clear(words, index) ==
    IF get_word_index(index) < Len(words)
    THEN [words EXCEPT ![get_word_index(index) + 1] = @ \ {index % 64}]
    ELSE words

-----------------------------------------------------------------------------
(* BitSet: get over words and over their wire bytes *)

MaxWords == 2

\* Words with bits at the ends of the word and of its bytes
WordPatterns == {{}, {0, 3}, {0, 1, 3}, {7, 8, 56}, {63}, 0..63}

WordSeqs == UNION {[1..n -> WordPatterns] : n \in 0..MaxWords}

BitSetInit ==
    /\ build \in Builds
    /\ pc = "bitset"
    /\ input \in [words : WordSeqs]
    /\ writer = write_longs(input.words)
    /\ cursors = <<>>
    /\ call = NoCall
    /\ result = NoResult
    /\ packer = NoPacker
    /\ unpacker = NoUnpacker
    /\ owned = NoOwned

\* BitSet::new_words(words).get(index) and BitSet::new_raw(raw).get(index)
BitSetGet(index) ==
    /\ pc = "bitset"
    /\ result' = Ok([words |-> get_bit_from_words(input.words, index),
                     raw |-> get_bit_from_raw(writer, index)], <<>>)
    /\ call' = [call EXCEPT !.op = "get", !.on = index]
    /\ pc' = "bitset_asked"
    /\ UNCHANGED <<build, input, writer, cursors, packer, unpacker, owned>>

BitSetNext == \E index \in 0..(64 * (MaxWords + 1) + 3) : BitSetGet(index)

SpecBitSet == BitSetInit /\ [][BitSetNext]_vars

\* C12: get(i) over words w is Some(bit (i & 63) of w[i >> 6]) when i >> 6 <
\* len(w) and None otherwise, and get(i) over the big-endian wire bytes of
\* the same words gives the same answer.
BitSetFormsAgree ==
    (call.op = "get") =>
        LET i == call.on
            word_index == i \div 64
        IN  /\ result.val.words =
                  IF word_index < Len(input.words)
                  THEN <<(i % 64) \in input.words[word_index + 1]>>
                  ELSE <<>>
            /\ result.val.raw = result.val.words

BitSetSecondWordBit ==
    /\ call.op = "get"
    /\ call.on = 120
    /\ input.words = <<{0, 3}, {7, 8, 56}>>
    /\ result.val.raw = <<TRUE>>

-----------------------------------------------------------------------------
(* OwnedBitSet: any sequence of set and clear calls *)

\* The indices of tests::bit_set_test, the ends of a word, and one past a gap
BitIndices == {0, 3, 63, 64, 67, 130}

OwnedBitSetInit ==
    /\ build \in Builds
    /\ pc = "owned_bit_set"
    /\ input = [indices |-> BitIndices]
    /\ writer = <<>>
    /\ cursors = <<>>
    /\ call = [op |-> "new", on |-> 0, length |-> 0, before |-> <<>>,
               recent |-> [i \in BitIndices |-> "none"]]
    /\ result = NoResult
    /\ packer = NoPacker
    /\ unpacker = NoUnpacker
    /\ owned = [words |-> <<>>]

\* call.recent keeps, per index, the most recent call made on it.
OwnedBitSetSet(index) ==
    /\ pc = "owned_bit_set"
    /\ owned' = [words |-> owned_set(owned.words, index)]
    /\ call' = [op |-> "set", on |-> index, length |-> 0, before |-> owned.words,
                recent |-> [call.recent EXCEPT ![index] = "set"]]
    /\ UNCHANGED <<build, pc, input, writer, cursors, result, packer, unpacker>>

OwnedBitSetClear(index) ==
    /\ pc = "owned_bit_set"
    /\ owned' = [words |-> owned_clear(owned.words, index)]
    /\ call' = [op |-> "clear", on |-> index, length |-> 0, before |-> owned.words,
                recent |-> [call.recent EXCEPT ![index] = "clear"]]
    /\ UNCHANGED <<build, pc, input, writer, cursors, result, packer, unpacker>>

OwnedBitSetNext ==
    \E index \in BitIndices :
        \/ OwnedBitSetSet(index)
        \/ OwnedBitSetClear(index)

SpecOwnedBitSet == OwnedBitSetInit /\ [][OwnedBitSetNext]_vars

\* C13: from OwnedBitSet::new(), after any set and clear calls, get(i) is
\* Some(true) exactly when the most recent call on i was set; get(j) is None
\* exactly when j >> 6 is at least the number of words, which starts at 0 and
\* grows only in set(i), to (i >> 6) + 1 when needed; a call changes no bit
\* other than its own; clear beyond the words changes nothing; long_iter
\* yields the words in order.
OwnedBitSetContract ==
    LET words == owned.words
        probes == 0..(64 * (Len(words) + 1))
    IN  /\ \A j \in probes :
              /\ (get_bit_from_words(words, j) = Some(TRUE))
                    <=> (j \in BitIndices /\ call.recent[j] = "set")
              /\ (get_bit_from_words(words, j) = None) <=> (j \div 64 >= Len(words))
        /\ (call.op = "new") => Len(words) = 0
        /\ (call.op = "set") =>
              Len(words) = IF call.on \div 64 >= Len(call.before)
                           THEN (call.on \div 64) + 1 ELSE Len(call.before)
        /\ (call.op = "clear") =>
              /\ Len(words) = Len(call.before)
              /\ (call.on \div 64 >= Len(call.before)) => words = call.before
        /\ (call.op \in {"set", "clear"}) =>
              \A j \in probes \ {call.on} :
                  (get_bit_from_words(words, j) = Some(TRUE))
                      <=> (get_bit_from_words(call.before, j) = Some(TRUE))
        /\ long_iter(words) = words

\* The state of tests::bit_set_test after its five set calls, one bit
\* cleared again
OwnedBitSetTwoWords ==
    /\ call.op = "clear"
    /\ call.on = 3
    /\ owned.words = <<{0}, {0, 3}>>

-----------------------------------------------------------------------------
(* LightArray and OwnedLightArray *)

\* get_index with the nibbles of a byte exchanged
get_index_high_first(position) ==
    LET index == (position.y * 256) + (position.z * 16) + position.x
    IN  [index |-> index \div 2, right |-> index % 2 = 1]

\* LightArray::get_index, for x, y, z < 16: ((y << 8) | (z << 4) | x), halved,
\* and whether it is even
get_index(position) ==
    LET index == (position.y * 256) + (position.z * 16) + position.x
    IN  [index |-> index \div 2, right |-> index % 2 = 0]

\* LightArray::get_from_array; data[index] is the byte at that 0-based index
get_from_array(data, position) ==
    LET at == get_index(position) IN
    IF at.right THEN data[at.index + 1] % 16 ELSE data[at.index + 1] \div 16

\* OwnedLightArray::new
owned_light_new == [data |-> [k \in 1..2048 |-> 0], not_empty |-> 0]

\* OwnedLightArray::set as it would be if it never lowered the counter
owned_light_set_counting_up(object, position, value) ==
    LET at == get_index(position)
        old == object.data[at.index + 1]
        res == IF at.right THEN (old - (old % 16)) + value ELSE (old % 16) + ((value * 16) % 256)
    IN  [data |-> [object.data EXCEPT ![at.index + 1] = res],
         not_empty |-> (object.not_empty + (IF res # 0 THEN 1 ELSE 0)) % 65536]

\* OwnedLightArray::set, for value < 16; not_empty is a u16
owned_light_set(object, position, value) ==
    LET at == get_index(position)
        old == object.data[at.index + 1]
        res == IF at.right THEN (old - (old % 16)) + value ELSE (old % 16) + ((value * 16) % 256)
        lowered == IF old # 0 THEN (object.not_empty + 65535) % 65536 ELSE object.not_empty
    IN  [data |-> [object.data EXCEPT ![at.index + 1] = res],
         not_empty |-> (lowered + (IF res # 0 THEN 1 ELSE 0)) % 65536]

\* OwnedLightArray::as_light_array
as_light_array(object) == [bytes |-> object.data]

\* OwnedLightArray::is_empty
is_empty(object) == object.not_empty = 0

-----------------------------------------------------------------------------
(* OwnedLightArray: any sequence of set calls *)

\* Two positions of tests::light_array_test, the neighbour that shares a
\* byte with the first, and the last position
LightPositions ==
    {[x |-> 0, y |-> 0, z |-> 0], [x |-> 1, y |-> 0, z |-> 0], [x |-> 1, y |-> 1, z |-> 1],
     [x |-> 15, y |-> 15, z |-> 15]}

LightValues == {0, 13, 15}

AllLightPositions == [x : 0..15, y : 0..15, z : 0..15]

\* Nothing below depends on the profile; the debug and the release profile
\* are kept.
LightInit ==
    /\ build \in {b \in Builds : b.overflow_checks = b.debug_assertions}
    /\ pc = "owned_light_array"
    /\ input = [positions |-> LightPositions]
    /\ writer = <<>>
    /\ cursors = <<>>
    /\ call = [op |-> "new", on |-> [x |-> 0, y |-> 0, z |-> 0], length |-> 0,
               before |-> owned_light_new]
    /\ result = NoResult
    /\ packer = NoPacker
    /\ unpacker = NoUnpacker
    /\ owned = owned_light_new

\* One set call; call.length is the value set.
LightSet(position, value) ==
    /\ pc = "owned_light_array"
    /\ owned' = owned_light_set(owned, position, value)
    /\ call' = [op |-> "set", on |-> position, length |-> value, before |-> owned]
    /\ UNCHANGED <<build, pc, input, writer, cursors, result, packer, unpacker>>

LightNext == \E position \in LightPositions, value \in LightValues : LightSet(position, value)

SpecLight == LightInit /\ [][LightNext]_vars

\* C14: set((x, y, z), v) stores v in byte ((y << 8) | (z << 4) | x) >> 1, in
\* the low nibble when that index is even and the high nibble when odd;
\* afterwards get of the position, on the owned array and on
\* as_light_array(), returns v, and get of every other position returns what
\* it returned before.
LightSetThenGet ==
    (call.op = "set") =>
        LET index == (call.on.y * 256) + (call.on.z * 16) + call.on.x
            byte == owned.data[(index \div 2) + 1]
        IN  /\ IF index % 2 = 0 THEN byte % 16 = call.length ELSE byte \div 16 = call.length
            /\ get_from_array(owned.data, call.on) = call.length
            /\ get_from_array(as_light_array(owned).bytes, call.on) = call.length
            /\ as_light_array(owned).bytes = owned.data
            /\ \A other \in AllLightPositions \ {call.on} :
                  get_from_array(owned.data, other) = get_from_array(call.before.data, other)

LightHighNibbleSet ==
    /\ call.op = "set"
    /\ call.on = [x |-> 1, y |-> 0, z |-> 0]
    /\ call.length = 13
    /\ owned.data[1] = 223

\* C15: from OwnedLightArray::new(), after any set calls, is_empty() is true
\* exactly when all 4096 nibbles are zero; not_empty equals the number of
\* non-zero bytes and is never lowered below zero.
LightCounter ==
    /\ owned.not_empty = Cardinality({k \in 1..2048 : owned.data[k] # 0})
    /\ is_empty(owned) <=> \A position \in AllLightPositions : get_from_array(owned.data, position) = 0
    /\ (call.op = "set" /\ call.before.data[get_index(call.on).index + 1] # 0)
            => call.before.not_empty >= 1

LightEmptiedAgain ==
    /\ call.op = "set"
    /\ call.length = 0
    /\ call.before.not_empty = 1
    /\ call.before.data[2048] = 240
    /\ is_empty(owned)

-----------------------------------------------------------------------------
(* WorldEvent *)

\* A WorldEvent is its variant with the values of its fields; a
\* SmokeDirection is its discriminant, Down = 0 .. East = 5.

\* SmokeDirection::try_from
smoke_direction_try_from(value) == IF value \in 0..5 THEN Some(value) ELSE None

\* the arms of the match in WorldEvent::new, in source order
WorldEventNewArms ==
    {
       <<1000, "Dispense">>, <<1001, "FailedDispense">>, <<1002, "DispenserShoots">>,
       <<1003, "EnderEyeLaunches">>, <<1004, "FireworkShots">>, <<1005, "IronDoorOpens">>,
       <<1006, "WoodenDoorOpens">>, <<1007, "WoodenTrapdoorOpens">>, <<1008, "FenceGateOpens">>,
       <<1009, "FireExtinguishes">>, <<1010, "PlayRecord">>, <<1011, "IronDoorCloses">>,
       <<1012, "WoodenDoorCloses">>, <<1013, "WoodenTrapDoorCloses">>, <<1014, "FenceGateCloses">>,
       <<1015, "GhastWarns">>, <<1016, "GhastShoots">>, <<1017, "EnderDragonShoots">>,
       <<1018, "BlazeShoots">>, <<1019, "ZombieAttacksWoodenDoor">>, <<1020, "ZombieAttacksIronDoor">>,
       <<1021, "ZombieBreaksWoodenDoor">>, <<1022, "WitherBreaksBlock">>, <<1023, "WitherSpawns">>,
       <<1024, "WitherShoots">>, <<1025, "BatTakesOff">>, <<1026, "ZombieInfects">>,
       <<1027, "ZombieVillagerConverts">>, <<1028, "EnderDragonDeath">>, <<1029, "AnvilDestroy">>,
       <<1030, "AnvilUse">>, <<1031, "AnvilLand">>, <<1032, "PortalTravel">>,
       <<1033, "ChorusFlowerGrown">>, <<1034, "ChorusFlowerDeath">>, <<1035, "BrewingStandBrew">>,
       <<1036, "IronTrapdoorOpens">>, <<1037, "IronTrapdoorCloses">>, <<1038, "OverworldEndPortalCreates">>,
       <<1039, "PhantomBites">>, <<1040, "ZombieConvertsToDrowned">>, <<1041, "HuskConvertsToZombie">>,
       <<1042, "GrindstoneUsed">>, <<1043, "BookPageTurned">>, <<1500, "ComposterComposts">>,
       <<1501, "LavaConvertsBlock">>, <<1502, "RedstoneTorchBurnsOut">>, <<1503, "EnderEyePlace">>,
       <<2000, "Smoke">>, <<2001, "BlockBreak">>, <<2002, "SplashPotion">>,
       <<2003, "EyeOfEnderBreak">>, <<2004, "MobSpawn">>, <<2005, "BonemealParticles">>,
       <<2006, "DragonBreath">>, <<2007, "InstantSplashPotion">>, <<2008, "EnderDragonDestroysBlock">>,
       <<2009, "WetSpongeVaporizesInNether">>, <<3000, "EndGatewaySpawn">>, <<3001, "EnderDragonGrowl">>,
       <<3002, "ElectricSpark">>, <<3003, "CopperApplyWax">>, <<3004, "CopperRemoveWax">>,
       <<3005, "CopperScrapeOxidation">>
    }

\* the arms of WorldEvent::new that take the value, 2000 apart
WorldEventNewValueArms == {1010, 2001, 2002, 2005, 2007}

\* WorldEvent::new; value as u8 keeps the low eight bits of the i32
world_event_new(id, value) ==
    LET arms == {arm \in WorldEventNewArms : arm[1] = id} IN
    IF arms = {} THEN None
    ELSE LET variant == (CHOOSE arm \in arms : TRUE)[2] IN
         IF id = 2000
         THEN LET direction == smoke_direction_try_from(NatOf(SignedBits(value, 32) \cap 0..7)) IN
              IF direction = None THEN None
              ELSE Some([variant |-> variant, data |-> <<direction[1]>>])
         ELSE IF id \in WorldEventNewValueArms
              THEN Some([variant |-> variant, data |-> <<value>>])
              ELSE Some([variant |-> variant, data |-> <<>>])

\* the arms of the match in WorldEvent::get_id_value, in source order
WorldEventIdArms ==
    {
       <<"Dispense", 1000>>, <<"FailedDispense", 1001>>, <<"DispenserShoots", 1002>>,
       <<"EnderEyeLaunches", 1003>>, <<"FireworkShots", 1004>>, <<"IronDoorOpens", 1005>>,
       <<"WoodenDoorOpens", 1006>>, <<"WoodenTrapdoorOpens", 1007>>, <<"FenceGateOpens", 1008>>,
       <<"FireExtinguishes", 1009>>, <<"PlayRecord", 1010>>, <<"IronDoorCloses", 1011>>,
       <<"WoodenDoorCloses", 1012>>, <<"WoodenTrapDoorCloses", 1013>>, <<"FenceGateCloses", 1014>>,
       <<"GhastWarns", 1015>>, <<"GhastShoots", 1016>>, <<"EnderDragonShoots", 1017>>,
       <<"BlazeShoots", 1018>>, <<"ZombieAttacksWoodenDoor", 1019>>, <<"ZombieAttacksIronDoor", 1020>>,
       <<"ZombieBreaksWoodenDoor", 1021>>, <<"WitherBreaksBlock", 1022>>, <<"WitherSpawns", 1023>>,
       <<"WitherShoots", 1024>>, <<"BatTakesOff", 1025>>, <<"ZombieInfects", 1026>>,
       <<"ZombieVillagerConverts", 1027>>, <<"EnderDragonDeath", 1028>>, <<"AnvilDestroy", 1029>>,
       <<"AnvilUse", 1030>>, <<"AnvilLand", 1031>>, <<"PortalTravel", 1032>>,
       <<"ChorusFlowerGrown", 1033>>, <<"ChorusFlowerDeath", 1034>>, <<"BrewingStandBrew", 1035>>,
       <<"IronTrapdoorOpens", 1036>>, <<"IronTrapdoorCloses", 1037>>, <<"OverworldEndPortalCreates", 1038>>,
       <<"PhantomBites", 1039>>, <<"ZombieConvertsToDrowned", 1040>>, <<"HuskConvertsToZombie", 1041>>,
       <<"GrindstoneUsed", 1042>>, <<"BookPageTurned", 1043>>, <<"ComposterComposts", 1500>>,
       <<"LavaConvertsBlock", 1501>>, <<"RedstoneTorchBurnsOut", 1502>>, <<"EnderEyePlace", 1503>>,
       <<"Smoke", 2000>>, <<"BlockBreak", 2001>>, <<"SplashPotion", 2002>>,
       <<"EyeOfEnderBreak", 2003>>, <<"MobSpawn", 2004>>, <<"BonemealParticles", 2005>>,
       <<"DragonBreath", 2006>>, <<"InstantSplashPotion", 2007>>, <<"EnderDragonDestroysBlock", 2008>>,
       <<"WetSpongeVaporizesInNether", 2009>>, <<"EndGatewaySpawn", 3000>>, <<"EnderDragonGrowl", 3001>>,
       <<"ElectricSpark", 3002>>, <<"CopperApplyWax", 3003>>, <<"CopperRemoveWax", 3004>>,
       <<"CopperScrapeOxidation", 3005>>
    }

\* WorldEvent::get_id_value: the arms with a field give it as the value,
\* the others give 0
get_id_value(event) ==
    LET id == (CHOOSE arm \in WorldEventIdArms : arm[1] = event.variant)[2] IN
    IF event.variant \in {"PlayRecord", "Smoke", "BlockBreak", "SplashPotion",
                          "BonemealParticles", "InstantSplashPotion"}
    THEN <<id, event.data[1]>>
    ELSE <<id, 0>>

-----------------------------------------------------------------------------
(* WorldEvent: one call of new or of get_id_value *)

\* the ids of the table, and ids next to each of its four runs
WorldEventIds ==
    (1000..1043) \cup (1500..1503) \cup (2000..2009) \cup (3000..3005)
        \cup {-1, 0, 999, 1044, 1499, 1504, 1999, 2010, 2999, 3006}

\* i32 values: the six directions, their neighbours, values that agree with
\* a direction in the low eight bits, and the ends of the type
WorldEventValues == {-2147483647 - 1, -256, -1, 0, 1, 5, 6, 255, 256, 261, 2147483647}

\* every value of the enum over the directions and WorldEventValues
WorldEvents ==
    {[variant |-> arm[1], data |-> <<>>] :
        arm \in {a \in WorldEventIdArms : a[2] \notin WorldEventNewValueArms \cup {2000}}}
    \cup {[variant |-> arm[1], data |-> <<value>>] :
            arm \in {a \in WorldEventIdArms : a[2] \in WorldEventNewValueArms},
            value \in WorldEventValues}
    \cup {[variant |-> "Smoke", data |-> <<direction>>] : direction \in 0..5}

WorldEventInit ==
    /\ build \in Builds
    /\ pc = "world_event"
    /\ input = <<>>
    /\ writer = <<>>
    /\ cursors = <<>>
    /\ call = NoCall
    /\ result = NoResult
    /\ packer = NoPacker
    /\ unpacker = NoUnpacker
    /\ owned = NoOwned

\* WorldEvent::new(id, value); call.length is the value
WorldEventNew(id, value) ==
    /\ pc = "world_event"
    /\ call' = [op |-> "new", on |-> id, length |-> value, before |-> <<>>]
    /\ result' = Ok(world_event_new(id, value), <<>>)
    /\ pc' = "world_event_made"
    /\ UNCHANGED <<build, input, writer, cursors, packer, unpacker, owned>>

\* event.get_id_value()
WorldEventGetIdValue(event) ==
    /\ pc = "world_event"
    /\ call' = [op |-> "get_id_value", on |-> 0, length |-> 0, before |-> <<event>>]
    /\ result' = Ok(get_id_value(event), <<>>)
    /\ pc' = "world_event_asked"
    /\ UNCHANGED <<build, input, writer, cursors, packer, unpacker, owned>>

WorldEventNext ==
    \/ \E id \in WorldEventIds, value \in WorldEventValues : WorldEventNew(id, value)
    \/ \E event \in WorldEvents : WorldEventGetIdValue(event)

SpecWorldEvent == WorldEventInit /\ [][WorldEventNext]_vars

\* C16: new applied to get_id_value(e) returns Some(e); when new(id, data)
\* returns Some(e), get_id_value(e) has the same id and, for PlayRecord,
\* Smoke, BlockBreak, SplashPotion, BonemealParticles and
\* InstantSplashPotion, the same data; every id outside the table, and Smoke
\* with a data value outside 0..5, yields None.
WorldEventInverse ==
    /\ (call.op = "get_id_value") =>
            world_event_new(result.val[1], result.val[2]) = Some(call.before[1])
    /\ (call.op = "new" /\ result.val # None) =>
            /\ get_id_value(result.val[1])[1] = call.on
            /\ (call.on \in {1010, 2000, 2001, 2002, 2005, 2007})
                    => get_id_value(result.val[1])[2] = call.length
    /\ (call.op = "new" /\ call.on \notin {arm[1] : arm \in WorldEventNewArms})
            => result.val = None
    /\ (call.op = "new" /\ call.on = 2000 /\ call.length \notin 0..5)
            => result.val = None

-----------------------------------------------------------------------------
(* Hand-written codecs and their sizes *)

\* number_impl!: write of a fixed-width number, given as its bit pattern
number_write(word, n, out) == Ok({}, out \o to_be_bytes(word, n))

\* number_impl!: read of a fixed-width number, as its bit pattern
number_read(slice, n) ==
    LET taken == take_bytes(slice, n) IN
    IF taken.kind # "Ok" THEN taken ELSE Ok(from_be_bytes(taken.val), taken.rest)

\* bool::write and bool::read
bool_write(object, out) == number_write(IF object THEN {0} ELSE {}, 1, out)

bool_read(slice) ==
    LET val == number_read(slice, 1) IN
    IF val.kind # "Ok" THEN val ELSE Ok(val.val # {}, val.rest)

\* WorldEventPS2C::write
world_event_ps2c_write(object, out) ==
    LET pair == get_id_value(object.event)
        event == number_write(SignedBits(pair[1], 32), 4, out)
        location == block_position_write_variant(object.location, event.rest)
        event_data == number_write(SignedBits(pair[2], 32), 4, location.rest)
    IN  bool_write(object.disable_relative_volume, event_data.rest)

\* WorldEventPS2C::read
world_event_ps2c_read(slice) ==
    LET event_id == number_read(slice, 4) IN
    IF event_id.kind # "Ok" THEN event_id
    ELSE LET location == block_position_read_variant(event_id.rest) IN
    IF location.kind # "Ok" THEN location
    ELSE LET event_data == number_read(location.rest, 4) IN
    IF event_data.kind # "Ok" THEN event_data
    ELSE LET disable_relative_volume == bool_read(event_data.rest) IN
    IF disable_relative_volume.kind # "Ok" THEN disable_relative_volume
    ELSE LET event == world_event_new(i32_value(event_id.val), i32_value(event_data.val)) IN
         IF event = None THEN ErrAny("Bad world event id", disable_relative_volume.rest)
         ELSE Ok([event |-> event[1], location |-> location.val,
                  disable_relative_volume |-> disable_relative_volume.val],
                 disable_relative_volume.rest)

\* size_of::<T>() of the four number types a range is made of
size_of(T) == IF T \in {"f32", "i32"} THEN 4 ELSE 8

\* BrigadierNodeRangeProperties::<T>::write; min and max hold bit patterns
brigadier_range_write(T, object, out) ==
    LET flags == (IF object.min # None THEN 1 ELSE 0) + (IF object.max # None THEN 2 ELSE 0)
        first == number_write(BitsOf(flags), 1, out)
        second == IF object.min # None THEN number_write(object.min[1], size_of(T), first.rest)
                  ELSE first
    IN  IF object.max # None THEN number_write(object.max[1], size_of(T), second.rest)
        ELSE second

\* BrigadierNodeRangeProperties::<T>::read
brigadier_range_read(T, slice) ==
    LET flags == number_read(slice, 1) IN
    IF flags.kind # "Ok" THEN flags
    ELSE LET min == IF 1 \in flags.val THEN number_read(flags.rest, size_of(T))
                    ELSE Ok(None, flags.rest)
         IN
    IF min.kind # "Ok" THEN min
    ELSE LET max == IF 0 \in flags.val THEN number_read(min.rest, size_of(T))
                    ELSE Ok(None, min.rest)
         IN
    IF max.kind # "Ok" THEN max
    ELSE Ok([min |-> IF 1 \in flags.val THEN Some(min.val) ELSE None,
             max |-> IF 0 \in flags.val THEN Some(max.val) ELSE None], max.rest)

\* fixed_size!: a SIZE of start .. end with both equal
fixed_size(value) == [start |-> value, end |-> value]

\* SIZE of Option<T> and of Vector3D<T>, from the SIZE of T
option_size(T) == [start |-> 1, end |-> T.end + 1]

vector3d_size(T) == [start |-> 3 * T.start, end |-> 3 * T.end]

\* add_protocol_sizes: the sums of the starts and of the ends; every sum
\* here is far below u32::MAX, where the addition would stop
RECURSIVE add_protocol_sizes(_)
add_protocol_sizes(array) ==
    IF array = <<>> THEN [start |-> 0, end |-> 0]
    ELSE LET value == add_protocol_sizes(SubSeq(array, 1, Len(array) - 1))
             last == array[Len(array)]
         IN  [start |-> value.start + last.start, end |-> value.end + last.end]

\* WorldEventPS2C::SIZE = add_protocol_sizes_ty!(i32, i32, Vector3D<i32>, bool)
WorldEventPS2C_SIZE ==
    add_protocol_sizes(<<fixed_size(4), fixed_size(4), vector3d_size(fixed_size(4)),
                         fixed_size(1)>>)

\* BrigadierNodeRangeProperties::<T>::SIZE = add_protocol_sizes_ty!(Option<T>, Option<T>, u8)
BrigadierNodeRangeProperties_SIZE(T) ==
    add_protocol_sizes(<<option_size(fixed_size(size_of(T))),
                         option_size(fixed_size(size_of(T))), fixed_size(1)>>)

-----------------------------------------------------------------------------
(* Hand-written codecs: one value written, then read back *)

\* bit patterns of a bound: zero, a small value, all ones
BoundPatterns(T) == {{}, {0, 2}, 0..(8 * size_of(T) - 1)}

SizedValues ==
    [ty : {"WorldEventPS2C"}, T : {"i32"},
     object : [event : {[variant |-> "Dispense", data |-> <<>>],
                        [variant |-> "PlayRecord", data |-> <<-7>>],
                        [variant |-> "Smoke", data |-> <<5>>]},
               location : {[x |-> 1, y |-> 2, z |-> 3], [x |-> -1, y |-> -1, z |-> -1]},
               disable_relative_volume : BOOLEAN]]
    \cup UNION {[ty : {"BrigadierNodeRangeProperties"}, T : {T},
                 object : [min : {None} \cup {Some(p) : p \in BoundPatterns(T)},
                           max : {None} \cup {Some(p) : p \in BoundPatterns(T)}]] :
                T \in {"f32", "f64", "i32", "i64"}}

\* SIZE of the type of the value in hand
SizeOfInput ==
    IF input.ty = "WorldEventPS2C" THEN WorldEventPS2C_SIZE
    ELSE BrigadierNodeRangeProperties_SIZE(input.T)

SizedInit ==
    /\ build \in {b \in Builds : b.overflow_checks = b.debug_assertions}
    /\ pc = "sized"
    /\ input \in SizedValues
    /\ writer = <<>>
    /\ cursors = <<>>
    /\ call = NoCall
    /\ result = NoResult
    /\ packer = NoPacker
    /\ unpacker = NoUnpacker
    /\ owned = NoOwned

\* input.write(writer)
SizedWrite ==
    /\ pc = "sized"
    /\ LET w == IF input.ty = "WorldEventPS2C" THEN world_event_ps2c_write(input.object, writer)
                ELSE brigadier_range_write(input.T, input.object, writer)
       IN  /\ writer' = w.rest
           /\ result' = [w EXCEPT !.rest = <<>>]
    /\ call' = [op |-> "write", on |-> 0, length |-> 0, before |-> <<>>]
    /\ pc' = "sized_written"
    /\ UNCHANGED <<build, input, cursors, packer, unpacker, owned>>

\* read on a cursor over the bytes written and two bytes more; call.before
\* is the cursor before the read
SizedRead ==
    /\ pc = "sized_written"
    /\ LET slice == writer \o <<255, 1>>
           r == IF input.ty = "WorldEventPS2C" THEN world_event_ps2c_read(slice)
                ELSE brigadier_range_read(input.T, slice)
       IN  /\ result' = r
           /\ cursors' = <<r.rest>>
           /\ call' = [op |-> "read", on |-> 1, length |-> 0, before |-> slice]
    /\ pc' = "sized_read"
    /\ UNCHANGED <<build, input, writer, packer, unpacker, owned>>

SizedNext == SizedWrite \/ SizedRead

SpecSized == SizedInit /\ [][SizedNext]_vars

\* C17: for WorldEventPS2C and BrigadierNodeRangeProperties<T>, the number
\* of bytes write produces lies in [SIZE.start, SIZE.end] of the type, and
\* every successful read advances the cursor by a count in that range.
SizeContract ==
    /\ (pc \in {"sized_written", "sized_read"})
            => Len(writer) \in SizeOfInput.start..SizeOfInput.end
    /\ (pc = "sized_read" /\ result.kind = "Ok")
            => (Len(call.before) - Len(cursors[1])) \in SizeOfInput.start..SizeOfInput.end

-----------------------------------------------------------------------------
(* NbtBytes: the skip-walk over one NBT tree *)

\* A ProtocolSkipCursor is [cursor, length]: the bytes left of the forked
\* cursor and the counter. Results carry the skip cursor as rest.

\* ProtocolSkipCursor::new
skip_cursor_new(slice) == [cursor |-> slice, length |-> 0]

\* ProtocolSkipCursor::skip: take_bytes of the inner cursor; the counter is
\* not touched
skip(c, length) ==
    LET taken == take_bytes(c.cursor, length) IN
    [taken EXCEPT !.val = {}, !.rest = [cursor |-> taken.rest, length |-> c.length]]

\* u8::read, u16::read and i32::read on the skip cursor, through its
\* take_bytes, which adds to the counter before it takes; the value is the
\* bit pattern
skip_cursor_read(c, n) ==
    LET taken == number_read(c.cursor, n) IN
    [taken EXCEPT !.rest = [cursor |-> taken.rest, length |-> c.length + n]]

\* cursor.skip(count as usize * size) for an i32 count: a negative count is
\* above 2^63 as usize, so the product overflows when size > 1, and what is
\* left after wrapping is still more than any slice holds
skip_scaled(c, count, size, bld) ==
    IF count >= 0 THEN skip(c, count * size)
    ELSE IF size > 1 /\ bld.overflow_checks THEN Panic(c)
    ELSE ErrEnd([cursor |-> <<>>, length |-> c.length])

\* r? followed by F of the value of r: an error of r is returned, and
\* otherwise F is applied to r, which is computed once
AndThen(r, F(_)) == CHOOSE x \in {IF v.kind # "Ok" THEN v ELSE F(v) : v \in {r}} : TRUE

\* nbt::skip_string
skip_string(c) ==
    AndThen(skip_cursor_read(c, 2), LAMBDA length : skip(length.rest, NatOf(length.val)))

RECURSIVE skip_compound(_, _)
RECURSIVE skip_entered_compound(_, _)
RECURSIVE skip_tag(_, _, _, _)

\* nbt::skip_compound
skip_compound(c, bld) ==
    AndThen(skip_cursor_read(c, 1), LAMBDA tag :
        IF NatOf(tag.val) # 10 THEN ErrAny("Nbt does not start with compound", tag.rest)
        ELSE AndThen(skip_string(tag.rest), LAMBDA name : skip_entered_compound(name.rest, bld)))

\* nbt::skip_entered_compound: one turn of the loop, then the rest of it
skip_entered_compound(c, bld) ==
    AndThen(skip_cursor_read(c, 1), LAMBDA tag :
        IF NatOf(tag.val) = 0 THEN Ok({}, tag.rest)
        ELSE AndThen(skip_string(tag.rest), LAMBDA name :
                 AndThen(skip_tag(name.rest, NatOf(tag.val), 1, bld), LAMBDA payload :
                     skip_entered_compound(payload.rest, bld))))

\* nbt::skip_tag; times is the i32 count (1 from a compound). For the tags
\* with a loop: one turn, then the remaining times - 1; a negative count, as
\* usize, is more turns than the slice has bytes, so the loop ends in the
\* error of a turn.
skip_tag(c, tag, times, bld) ==
    IF tag = 0 THEN Ok({}, c)
    ELSE IF tag \in 1..6
    THEN skip_scaled(c, times, CASE tag = 1 -> 1 [] tag = 2 -> 2 [] tag \in {3, 5} -> 4
                                 [] OTHER -> 8, bld)
    ELSE IF tag \notin 7..12 THEN ErrAny("Bad nbt tag", c)
    ELSE IF times = 0 THEN Ok({}, c)
    ELSE AndThen(IF tag = 8 THEN skip_string(c)
                 ELSE IF tag = 10 THEN skip_compound(c, bld)
                 ELSE IF tag = 9
                 THEN AndThen(skip_cursor_read(c, 1), LAMBDA inner :
                          AndThen(skip_cursor_read(inner.rest, 4), LAMBDA count :
                              skip_tag(count.rest, NatOf(inner.val), i32_value(count.val), bld)))
                 ELSE AndThen(skip_cursor_read(c, 4), LAMBDA length :
                          skip_scaled(length.rest, i32_value(length.val),
                                      CASE tag = 7 -> 1 [] tag = 11 -> 4 [] OTHER -> 8, bld)),
                 LAMBDA turn :
                     skip_tag(turn.rest, tag,
                              IF times < 0 THEN Len(turn.rest.cursor) + 1 ELSE times - 1, bld))

\* NbtBytes::read_variant: the walk runs on a fork of the cursor; the
\* cursor itself then gives up skip_cursor.length bytes
nbt_bytes_read_variant(slice, bld) ==
    CHOOSE x \in {IF walked.kind # "Ok" THEN [walked EXCEPT !.rest = slice]
                  ELSE take_bytes(slice, walked.rest.length) :
                  walked \in {skip_compound(skip_cursor_new(take_cursor(slice)), bld)}} : TRUE

-----------------------------------------------------------------------------
(* NbtBytes: well-formed trees, each followed by trailing bytes *)

\* the big-endian u16 and i32 of a small count
U16(n) == <<0, n>>
I32(n) == <<0, 0, 0, n>>

\* a named entry, and a whole tree: tag 10, name, entries, End
NbtEntry(tag, name, payload) == <<tag>> \o U16(Len(name)) \o name \o payload
NbtTree(name, entries) == <<10>> \o U16(Len(name)) \o name \o entries \o <<0>>

NbtNames == {<<>>, <<107, 101>>}

\* payloads of the 13 tag kinds: the six numbers, the arrays and the string
\* empty and filled, lists of nothing, of numbers, of strings, of lists and
\* of compounds, and compounds empty, with one entry and with a compound
\* as first entry
NbtPayloads ==
    {<<1, <<7>>>>, <<2, <<1, 2>>>>, <<3, <<1, 2, 3, 4>>>>, <<4, <<1, 2, 3, 4, 5, 6, 7, 8>>>>,
     <<5, <<63, 128, 0, 0>>>>, <<6, <<63, 240, 0, 0, 0, 0, 0, 0>>>>,
     <<7, I32(0)>>, <<7, I32(2) \o <<8, 9>>>>,
     <<8, U16(0)>>, <<8, U16(2) \o <<104, 105>>>>,
     <<9, <<0>> \o I32(0)>>,
     <<9, <<3>> \o I32(2) \o <<0, 0, 0, 1, 0, 0, 0, 2>>>>,
     <<9, <<8>> \o I32(2) \o U16(1) \o <<97>> \o U16(0)>>,
     <<9, <<9>> \o I32(2) \o <<1>> \o I32(1) \o <<5>> \o <<0>> \o I32(0)>>,
     <<9, <<10>> \o I32(0)>>,
     <<9, <<10>> \o I32(2) \o <<0>> \o NbtEntry(1, <<120>>, <<1>>) \o <<0>>>>,
     <<10, <<0>>>>,
     <<10, NbtEntry(1, <<120>>, <<1>>) \o <<0>>>>,
     <<10, NbtEntry(10, <<>>, <<0>>) \o <<0>>>>,
     <<11, I32(0)>>, <<11, I32(1) \o <<0, 0, 0, 5>>>>,
     <<12, I32(0)>>, <<12, I32(1) \o <<0, 0, 0, 0, 0, 0, 0, 5>>>>}

\* trees of no entry, of one entry and of two entries, under either name
NbtTrees ==
    {NbtTree(name, <<>>) : name \in NbtNames}
    \cup {NbtTree(name, NbtEntry(p[1], key, p[2])) :
            name \in NbtNames, key \in NbtNames, p \in NbtPayloads}
    \cup {NbtTree(<<>>, NbtEntry(p[1], <<>>, p[2]) \o NbtEntry(8, <<>>, U16(0))) :
            p \in NbtPayloads}

NbtTrails == {<<>>, <<0>>, <<10, 0, 0, 0>>, <<255, 255, 255>>}

NbtInit ==
    /\ build \in {b \in Builds : b.overflow_checks = b.debug_assertions}
    /\ pc = "nbt"
    /\ input \in [b : NbtTrees, t : NbtTrails]
    /\ writer = <<>>
    /\ cursors = <<input.b \o input.t>>
    /\ call = NoCall
    /\ result = NoResult
    /\ packer = NoPacker
    /\ unpacker = NoUnpacker
    /\ owned = NoOwned

\* NbtBytes::read_variant(&mut cursors[1])
NbtRead ==
    /\ pc = "nbt"
    /\ LET r == nbt_bytes_read_variant(cursors[1], build) IN
        /\ result' = r
        /\ cursors' = <<r.rest>>
    /\ call' = [op |-> "read_variant", on |-> 1, length |-> 0, before |-> cursors]
    /\ pc' = "nbt_read"
    /\ UNCHANGED <<build, input, writer, packer, unpacker, owned>>

NbtNext == NbtRead

SpecNbt == NbtInit /\ [][NbtNext]_vars

\* C18: for every well-formed top-level compound encoding b followed by
\* trailing bytes t, reading b ++ t with the NbtBytes variant returns exactly
\* the span b and leaves the cursor at the start of t; for the empty
\* compound 0a 00 00 00 it returns those four bytes.
NbtSpan ==
    (pc = "nbt_read") =>
        /\ result.kind = "Ok"
        /\ result.val = input.b
        /\ cursors[1] = input.t

-----------------------------------------------------------------------------
(* key_reverse: the derived codec of BlockActionVariant *)

\* pub enum BlockActionVariant: each arm with its ghost values and the
\* types of its fields; the two direction enums (ty = u8) are held as
\* their discriminant
BlockActionVariantArms ==
    <<[ident |-> "NoteBlock", fields |-> <<>>,
       ghost |-> <<[order |-> "begin", value |-> 0], [order |-> "end", value |-> 0]>>],
      [ident |-> "Piston", fields |-> <<"bool", "BlockActionVariantPistonDirection">>,
       ghost |-> <<>>],
      [ident |-> "Chest", fields |-> <<"u8">>, ghost |-> <<[order |-> "begin", value |-> 1]>>],
      [ident |-> "EnderChest", fields |-> <<"u8">>,
       ghost |-> <<[order |-> "begin", value |-> 1]>>],
      [ident |-> "Beacon", fields |-> <<>>,
       ghost |-> <<[order |-> "begin", value |-> 1], [order |-> "end", value |-> 0]>>],
      [ident |-> "Spawner", fields |-> <<>>,
       ghost |-> <<[order |-> "begin", value |-> 1], [order |-> "end", value |-> 0]>>],
      [ident |-> "EndGateway", fields |-> <<>>,
       ghost |-> <<[order |-> "begin", value |-> 1], [order |-> "end", value |-> 0]>>],
      [ident |-> "ShulkerBox", fields |-> <<"u8">>,
       ghost |-> <<[order |-> "begin", value |-> 1]>>],
      [ident |-> "Bell", fields |-> <<"BlockActionVariantBellDirection">>,
       ghost |-> <<[order |-> "begin", value |-> 1]>>]>>

\* The keys are bird_data::block_data::*.id, generated constants: distinct
\* block ids above 1 (0 is air, 1 is stone). Two tables stand for them, one
\* with keys of two VarInt bytes among them and one with keys of one byte.
BlockIdTables ==
    {[NoteBlock |-> 93, Piston |-> 120, Chest |-> 176, EnderChest |-> 329, Beacon |-> 339,
      Spawner |-> 175, EndGateway |-> 593, ShulkerBox |-> 595, Bell |-> 763],
     [NoteBlock |-> 20, Piston |-> 21, Chest |-> 22, EnderChest |-> 23, Beacon |-> 24,
      Spawner |-> 25, EndGateway |-> 26, ShulkerBox |-> 27, Bell |-> 28]}

\* create_prepared_fields with ghost values: the begin ghosts in the order
\* given, the declared fields, the end ghosts; field k of the arm is
\* [ty, index k], a ghost is [ty, value]
prepared_fields_of_arm(arm) ==
    LET ghosts(order) ==
            LET chosen == SelectSeq(arm.ghost, LAMBDA g : g.order = order) IN
            [k \in 1..Len(chosen) |-> [ty |-> "u8", index |-> 0, value |-> <<chosen[k].value>>]]
    IN  ghosts("begin")
            \o [k \in 1..Len(arm.fields) |-> [ty |-> arm.fields[k], index |-> k, value |-> <<>>]]
            \o ghosts("end")

\* the write of one prepared field: bool, u8, or an enum with a u8 key
field_write(field, fields, out) ==
    LET value == IF field.value # <<>> THEN field.value[1] ELSE fields[field.index] IN
    IF field.ty = "bool" THEN bool_write(value, out) ELSE number_write(BitsOf(value), 1, out)

RECURSIVE fields_write(_, _, _)
fields_write(prepared, fields, out) ==
    IF prepared = <<>> THEN Ok({}, out)
    ELSE LET w == field_write(Head(prepared), fields, out) IN
         IF w.kind # "Ok" THEN w ELSE fields_write(Tail(prepared), fields, w.rest)

\* <BlockActionVariant as ProtocolWritable>::write with key_reverse: the
\* fields of the arm, then the key
block_action_variant_write(object, ids, out) ==
    LET arm == CHOOSE a \in 1..Len(BlockActionVariantArms) :
                    BlockActionVariantArms[a].ident = object.arm
        written == fields_write(prepared_fields_of_arm(BlockActionVariantArms[arm]),
                                object.fields, out)
    IN  IF written.kind # "Ok" THEN written
        ELSE Ok({}, var_write_variant(SignedBits(ids[object.arm], 32), written.rest))

\* the read of one prepared field from the sub-cursor; a direction outside
\* its six arms is a bad key
field_read(field, slice) ==
    IF field.ty = "bool" THEN bool_read(slice)
    ELSE LET val == number_read(slice, 1) IN
         IF val.kind # "Ok" THEN val
         ELSE IF field.ty # "u8" /\ NatOf(val.val) \notin 0..5
              THEN ErrAny("Bad value of key", val.rest)
              ELSE Ok(NatOf(val.val), val.rest)

\* read_fields: every prepared field is read in order; the ghosts are read
\* and dropped
RECURSIVE fields_read(_, _, _)
fields_read(prepared, slice, fields) ==
    IF prepared = <<>> THEN Ok(fields, slice)
    ELSE LET r == field_read(Head(prepared), slice) IN
         IF r.kind # "Ok" THEN r
         ELSE fields_read(Tail(prepared), r.rest,
                          IF Head(prepared).value # <<>> THEN fields ELSE Append(fields, r.val))

\* the number of bytes of the prepared fields of an arm, each of them one
\* byte wide
fields_size(arm) == Len(prepared_fields_of_arm(arm))

\* <BlockActionVariant as ProtocolSize>::SIZE: the key size and the least
\* and the greatest fields_size
BlockActionVariant_SIZE ==
    LET sizes == {fields_size(BlockActionVariantArms[a]) : a \in 1..Len(BlockActionVariantArms)}
    IN  [start |-> VarSize("VarInt").start + (CHOOSE s \in sizes : \A t \in sizes : s <= t),
         end |-> VarSize("VarInt").end + (CHOOSE s \in sizes : \A t \in sizes : s >= t)]

\* __RCSIZE: SIZE.start, given that the assertion of the constant holds
RCSIZE ==
    IF BlockActionVariant_SIZE.start - VarSize("VarInt").start
            = BlockActionVariant_SIZE.end - VarSize("VarInt").end
    THEN Some(BlockActionVariant_SIZE.start) ELSE None

\* <BlockActionVariant as ProtocolReadable>::read with key_reverse: a
\* sub-cursor over RCSIZE bytes is taken from the cursor; the key and then
\* the fields of its arm are read from the sub-cursor
block_action_variant_read(slice, ids, bld) ==
    LET taken == take_bytes(slice, RCSIZE[1]) IN
    IF taken.kind # "Ok" THEN taken
    ELSE LET key == var_read_variant("VarInt", taken.val, bld) IN
    IF key.kind # "Ok" THEN [key EXCEPT !.rest = taken.rest]
    ELSE LET arms == {a \in 1..Len(BlockActionVariantArms) :
                         ids[BlockActionVariantArms[a].ident] = i32_value(key.val)}
         IN
    IF arms = {} THEN ErrAny("Bad value of key", taken.rest)
    ELSE LET arm == BlockActionVariantArms[CHOOSE a \in arms : TRUE]
             read == fields_read(prepared_fields_of_arm(arm), key.rest, <<>>)
         IN  IF read.kind # "Ok" THEN [read EXCEPT !.rest = taken.rest]
             ELSE Ok([arm |-> arm.ident, fields |-> read.val], taken.rest)

-----------------------------------------------------------------------------
(* BlockActionVariant: one value written, then read back *)

\* every arm, with both bools, all six directions and three counts
BlockActionVariants ==
    {[arm |-> a, fields |-> <<>>] : a \in {"NoteBlock", "Beacon", "Spawner", "EndGateway"}}
    \cup {[arm |-> "Piston", fields |-> <<retract, direction>>] :
            retract \in BOOLEAN, direction \in 0..5}
    \cup {[arm |-> a, fields |-> <<players_looking_in>>] :
            a \in {"Chest", "EnderChest", "ShulkerBox"}, players_looking_in \in {0, 1, 200}}
    \cup {[arm |-> "Bell", fields |-> <<direction>>] : direction \in 0..5}

BlockActionInit ==
    /\ build \in Builds
    /\ pc = "block_action"
    /\ input \in [object : BlockActionVariants, ids : BlockIdTables]
    /\ writer = <<>>
    /\ cursors = <<>>
    /\ call = NoCall
    /\ result = NoResult
    /\ packer = NoPacker
    /\ unpacker = NoUnpacker
    /\ owned = NoOwned

\* input.object.write(writer)
BlockActionWrite ==
    /\ pc = "block_action"
    /\ LET w == block_action_variant_write(input.object, input.ids, writer) IN
        /\ writer' = w.rest
        /\ result' = [w EXCEPT !.rest = <<>>]
    /\ call' = [op |-> "write", on |-> 0, length |-> 0, before |-> <<>>]
    /\ pc' = "block_action_written"
    /\ UNCHANGED <<build, input, cursors, packer, unpacker, owned>>

\* BlockActionVariant::read on a cursor over exactly the bytes written
BlockActionRead ==
    /\ pc = "block_action_written"
    /\ LET r == block_action_variant_read(writer, input.ids, build) IN
        /\ result' = r
        /\ cursors' = <<r.rest>>
    /\ call' = [op |-> "read", on |-> 1, length |-> 0, before |-> <<writer>>]
    /\ pc' = "block_action_read"
    /\ UNCHANGED <<build, input, writer, packer, unpacker, owned>>

BlockActionNext == BlockActionWrite \/ BlockActionRead

SpecBlockAction == BlockActionInit /\ [][BlockActionNext]_vars

\* C19: write of a BlockActionVariant emits the arm's ghost and declared
\* fields first and the VarInt key last, and read applied to exactly those
\* bytes returns the same arm with the same field values and consumes all
\* of them.
KeyReverseRoundTrip ==
    /\ (pc \in {"block_action_written", "block_action_read"}) =>
            \E payload \in {SubSeq(writer, 1, n) : n \in 0..Len(writer)} :
                /\ Len(payload) = 2
                /\ writer = var_write_variant(SignedBits(input.ids[input.object.arm], 32), payload)
    /\ (pc = "block_action_read") =>
            /\ result.kind = "Ok"
            /\ result.val = input.object
            /\ cursors[1] = <<>>

-----------------------------------------------------------------------------
(* PalettedContainer: block-state containers with a small bits byte *)

\* the indices of a container of K palette values
ClampIndexes(K, stride) == [i \in 1..BlockStatesDomain.LENGTH |-> (i * stride) % K]

ClampInit ==
    /\ build \in Builds
    /\ pc = "clamp"
    /\ input \in [bits : 1..3, K : {2, 16}, stride : {1, 3}]
    /\ writer = <<>>
    /\ cursors = <<>>
    /\ call = NoCall
    /\ result = NoResult
    /\ packer = NoPacker
    /\ unpacker = NoUnpacker
    /\ owned = NoOwned

\* write of the Indirect block-state container of input.K palette values
ClampWrite ==
    /\ pc = "clamp"
    /\ LET r == paletted_write(BlockStatesDomain,
                               new_indirect([k \in 1..input.K |-> 7 * k],
                                            ClampIndexes(input.K, input.stride)),
                               writer, build)
       IN  /\ result' = [r EXCEPT !.rest = <<>>]
           /\ writer' = r.rest
    /\ pc' = "clamp_written"
    /\ call' = [call EXCEPT !.op = "write"]
    /\ UNCHANGED <<build, input, cursors, packer, unpacker, owned>>

\* read of the same container as an encoder that names a width below 4
\* sends it: the bytes written, with input.bits as the bits byte
ClampRead ==
    /\ pc = "clamp_written"
    /\ LET r == paletted_read(BlockStatesDomain, [writer EXCEPT ![1] = input.bits], build) IN
        /\ result' = r
        /\ cursors' = <<r.rest>>
    /\ pc' = "clamp_read"
    /\ call' = [call EXCEPT !.op = "read"]
    /\ UNCHANGED <<build, input, writer, packer, unpacker, owned>>

ClampNext == ClampWrite \/ ClampRead

SpecClamp == ClampInit /\ [][ClampNext]_vars

\* C21: writing an Indirect block-state container with at most 16 palette
\* values emits the bits byte 4 and packs the indices at 4 bits per entry,
\* and reading a container whose bits byte is 1, 2 or 3 unpacks its 4096
\* indices at 4 bits per entry.
ClampBothWays ==
    /\ (pc \in {"clamp_written", "clamp_read"}) =>
            LET header == 1 + 1 + (4 * input.K) + 2
                packed == Words(SubSeq(writer, header + 1, Len(writer)))
            IN  /\ writer[1] = 4
                /\ Len(writer) = header + (8 * 256)
                /\ \A i \in 1..BlockStatesDomain.LENGTH :
                      NatOf(Shr(packed[((i - 1) \div 16) + 1], 4 * ((i - 1) % 16)) \cap 0..3)
                          = ClampIndexes(input.K, input.stride)[i]
    /\ (pc = "clamp_read") =>
            /\ result.kind = "Ok"
            /\ result.val.form = "Indirect"
            /\ result.val.data = ClampIndexes(input.K, input.stride)

-----------------------------------------------------------------------------
(* ProtocolSkipCursor: the counter against the advance of the wrapped cursor *)

MaxSkipLen == 5
SkipBytes == {0, 1}
SkipTags == {0, 1, 7, 8, 9}

RECURSIVE SkipSlices(_)
SkipSlices(n) ==
    IF n = 0 THEN {<<>>}
    ELSE SkipSlices(n - 1) \cup {<<b>> \o s : b \in SkipBytes, s \in {t \in SkipSlices(n - 1) : Len(t) = n - 1}}

\* ProtocolSkipCursor::new(slice); result.rest holds the skip cursor
SkipInit ==
    /\ build \in {b \in Builds : b.overflow_checks = b.debug_assertions}
    /\ pc = "skip"
    /\ input \in SkipSlices(MaxSkipLen)
    /\ writer = <<>>
    /\ cursors = <<>>
    /\ call = NoCall
    /\ result = Ok({}, skip_cursor_new(input))
    /\ packer = NoPacker
    /\ unpacker = NoUnpacker
    /\ owned = NoOwned

\* an operation on the skip cursor; after a failure no further one is made
SkipStep(op, r) ==
    /\ result' = r
    /\ call' = [op |-> op, on |-> 0, length |-> 0, before |-> <<result.rest.cursor>>]
    /\ pc' = IF r.kind = "Ok" THEN "skip" ELSE "skip_failed"
    /\ UNCHANGED <<build, input, writer, cursors, packer, unpacker, owned>>

\* ProtocolSkipCursor::take_byte
SkipTakeByte ==
    /\ pc = "skip"
    /\ SkipStep("take_byte", skip_cursor_read(result.rest, 1))

\* ProtocolSkipCursor::take_bytes(2)
SkipTakeBytes ==
    /\ pc = "skip"
    /\ SkipStep("take_bytes", skip_cursor_read(result.rest, 2))

\* skip_string(&mut skip_cursor)
SkipString ==
    /\ pc = "skip"
    /\ SkipStep("skip_string", skip_string(result.rest))

\* skip_tag(&mut skip_cursor, tag, 1)
SkipTag ==
    /\ pc = "skip"
    /\ \E tag \in SkipTags : SkipStep("skip_tag", skip_tag(result.rest, tag, 1, build))

SkipNext == SkipTakeByte \/ SkipTakeBytes \/ SkipString \/ SkipTag

SpecSkip == SkipInit /\ [][SkipNext]_vars

\* C23: after any sequence of take_byte, take_bytes, skip_string and
\* skip_tag on a skip cursor, its length field equals the number of bytes by
\* which the wrapped cursor has advanced since the skip cursor was created.
SkipCounts ==
    (pc = "skip") => result.rest.length = Len(input) - Len(result.rest.cursor)

-----------------------------------------------------------------------------
(* NBT strings. A str is the sequence of its code points; as_bytes is its
   UTF-8 form, which is what str::len counts. to_java_cesu8 and
   from_java_cesu8 are the two functions of the cesu8 crate that the NBT
   code calls. *)

utf8_3(c) == <<224 + c \div 4096, 128 + ((c \div 64) % 64), 128 + (c % 64)>>

utf8(c) ==
    IF c < 128 THEN <<c>>
    ELSE IF c < 2048 THEN <<192 + c \div 64, 128 + (c % 64)>>
    ELSE IF c < 65536 THEN utf8_3(c)
    ELSE <<240 + c \div 262144, 128 + ((c \div 4096) % 64), 128 + ((c \div 64) % 64), 128 + (c % 64)>>

RECURSIVE as_bytes(_)
as_bytes(str) == IF str = <<>> THEN <<>> ELSE utf8(str[1]) \o as_bytes(Tail(str))

\* str::len
str_len(str) == Len(as_bytes(str))

\* Java's modified UTF-8 of one code point: U+0000 as C0 80, a
\* supplementary code point as its two surrogates of three bytes each
java_cesu8_char(c) ==
    IF c = 0 THEN <<192, 128>>
    ELSE IF c < 65536 THEN utf8(c)
    ELSE utf8_3(55296 + (c - 65536) \div 1024) \o utf8_3(56320 + ((c - 65536) % 1024))

\* cesu8::to_java_cesu8
RECURSIVE to_java_cesu8(_)
to_java_cesu8(str) ==
    IF str = <<>> THEN <<>> ELSE java_cesu8_char(str[1]) \o to_java_cesu8(Tail(str))

\* core::str::utf8_char_width, and 1 for ASCII
utf8_char_width(first) ==
    IF first < 128 THEN 1
    ELSE IF first \in 194..223 THEN 2
    ELSE IF first \in 224..239 THEN 3
    ELSE IF first \in 240..244 THEN 4
    ELSE 0

\* the second byte that a first byte of a three-byte sequence admits
three_byte_second(first, second) ==
    \/ first = 224 /\ second \in 160..191
    \/ first \in 225..236 /\ second \in 128..191
    \/ first = 237 /\ second \in 128..159
    \/ first \in 238..239 /\ second \in 128..191

\* a well-formed UTF-8 sequence of the width of its first byte
utf8_sequence(seq) ==
    /\ \A i \in 2..Len(seq) : seq[i] \in 128..191
    /\ Len(seq) = 3 => three_byte_second(seq[1], seq[2])
    /\ Len(seq) = 4 => \/ seq[1] = 240 /\ seq[2] \in 144..191
                       \/ seq[1] \in 241..243
                       \/ seq[1] = 244 /\ seq[2] \in 128..143

code_point(seq) ==
    CASE Len(seq) = 1 -> seq[1]
      [] Len(seq) = 2 -> (seq[1] - 192) * 64 + (seq[2] - 128)
      [] Len(seq) = 3 -> (seq[1] - 224) * 4096 + (seq[2] - 128) * 64 + (seq[3] - 128)
      [] OTHER -> (seq[1] - 240) * 262144 + (seq[2] - 128) * 4096
                  + (seq[3] - 128) * 64 + (seq[4] - 128)

\* c pushed in front of a decoded remainder, if there is one
push_front(c, decoded) == IF decoded = None THEN None ELSE Some(<<c>> \o decoded[1])

\* core::str::from_utf8, as Some(str) or None
RECURSIVE from_utf8(_)
from_utf8(bytes) ==
    IF bytes = <<>> THEN Some(<<>>)
    ELSE LET w == utf8_char_width(bytes[1]) IN
         IF w = 0 \/ Len(bytes) < w THEN None
         ELSE IF ~utf8_sequence(SubSeq(bytes, 1, w)) THEN None
         ELSE push_front(code_point(SubSeq(bytes, 1, w)),
                         from_utf8(SubSeq(bytes, w + 1, Len(bytes))))

\* cesu8's decode_from_iter for the Java variant, as Some(str) or None
RECURSIVE decode_from_iter(_)
decode_from_iter(bytes) ==
    IF bytes = <<>> THEN Some(<<>>)
    ELSE LET first == bytes[1]
             after(k) == decode_from_iter(SubSeq(bytes, k + 1, Len(bytes)))
         IN
         IF first = 0 THEN None
         ELSE IF first < 128 THEN push_front(first, after(1))
         ELSE IF first = 192
         THEN IF Len(bytes) >= 2 /\ bytes[2] = 128 THEN push_front(0, after(2)) ELSE None
         ELSE IF Len(bytes) < 2 \/ bytes[2] \notin 128..191 THEN None
         ELSE IF utf8_char_width(first) = 2
         THEN push_front(code_point(SubSeq(bytes, 1, 2)), after(2))
         ELSE IF utf8_char_width(first) # 3 THEN None
         ELSE IF Len(bytes) < 3 \/ bytes[3] \notin 128..191 THEN None
         ELSE IF three_byte_second(first, bytes[2])
         THEN push_front(code_point(SubSeq(bytes, 1, 3)), after(3))
         ELSE IF first = 237 /\ bytes[2] \in 160..175
         THEN IF \/ Len(bytes) < 6
                 \/ bytes[4] # 237
                 \/ bytes[5] \notin 176..191
                 \/ bytes[6] \notin 128..191
              THEN None
              ELSE push_front(65536 + ((bytes[2] - 160) * 64 + (bytes[3] - 128)) * 1024
                                    + (bytes[5] - 176) * 64 + (bytes[6] - 128),
                              after(6))
         ELSE None

\* cesu8::from_java_cesu8: bytes that are UTF-8 already are taken as they
\* are, anything else goes through the decoder
from_java_cesu8(bytes) ==
    CHOOSE x \in {IF direct # None THEN direct ELSE decode_from_iter(bytes) :
                  direct \in {from_utf8(bytes)}} : TRUE

\* write_nbt_str: str.len() as u16, then the Java CESU-8 bytes
write_nbt_str(str, out) ==
    Ok({}, out \o to_be_bytes(BitsOf(str_len(str) % 65536), 2) \o to_java_cesu8(str))

\* write_nbt_string
write_nbt_string(str, out) ==
    IF str_len(str) > 65535 THEN ErrAny("Too big string", out)
    ELSE Ok({}, out \o to_be_bytes(BitsOf(str_len(str)), 2) \o to_java_cesu8(str))

\* read_nbt_string, and Cow<str>::read_nbt, which is the same code
read_nbt_string(slice) ==
    AndThen(number_read(slice, 2), LAMBDA length :
        AndThen(take_bytes(length.rest, NatOf(length.val)), LAMBDA taken :
            CHOOSE x \in {IF str = None THEN ErrAny("Cesu8DecodingError", taken.rest)
                          ELSE Ok(str[1], taken.rest) :
                          str \in {from_java_cesu8(taken.val)}} : TRUE))

-----------------------------------------------------------------------------
(* impl NbtTag: a type is a record of its kind and NBT_TAG; the types of
   inherit_from_default_protocol! carry their SIZE.start, Vec its element
   type, NbtBorrowedArray its element type and SIZE, a derived struct its
   fields in the order of declaration under the names of their tags *)

NbtNum(tag, size) == [kind |-> "num", NBT_TAG |-> tag, SIZE |-> size]
NbtStr == [kind |-> "str", NBT_TAG |-> 8]
NbtByteSlice == [kind |-> "bytes", NBT_TAG |-> 9]
NbtVec(T) == [kind |-> "vec", NBT_TAG |-> 9, elem |-> T]
NbtBorrowed(T, size) == [kind |-> "borrowed", NBT_TAG |-> 9, elem |-> T, SIZE |-> size]
NbtVector3D(T) == [kind |-> "vector3d", NBT_TAG |-> 10, elem |-> T]
NbtStruct(fields) == [kind |-> "struct", NBT_TAG |-> 10, fields |-> fields]

\* the fields a compound type matches names against
compound_fields(T) ==
    IF T.kind = "vector3d"
    THEN <<[name |-> <<88>>, ty |-> T.elem], [name |-> <<89>>, ty |-> T.elem],
           [name |-> <<90>>, ty |-> T.elem]>>
    ELSE T.fields

\* the position of the field of that name, 0 if there is none
field_index(T, name) ==
    LET found == {i \in 1..Len(compound_fields(T)) : compound_fields(T)[i].name = name}
    IN  IF found = {} THEN 0 ELSE CHOOSE i \in found : TRUE

\* the u8 tag and the i32 len that open a list
list_header(slice) ==
    AndThen(number_read(slice, 1), LAMBDA tag :
        AndThen(number_read(tag.rest, 4), LAMBDA len :
            Ok([tag |-> NatOf(tag.val), len |-> i32_value(len.val)], len.rest)))

RECURSIVE skip_nbt(_, _, _)
RECURSIVE skip_nbt_compound(_, _)

\* T::skip_nbt(cursor, amount): for the types with a loop, one turn and then
\* the remaining amount - 1
skip_nbt(T, slice, amount) ==
    IF T.kind = "num"
    THEN AndThen(take_bytes(slice, T.SIZE * amount), LAMBDA taken :
             Ok(T.SIZE * amount, taken.rest))
    ELSE IF amount = 0 THEN Ok(0, slice)
    ELSE AndThen(
        IF T.kind = "str"
        THEN AndThen(number_read(slice, 2), LAMBDA len :
                 AndThen(take_bytes(len.rest, NatOf(len.val)), LAMBDA taken :
                     Ok(NatOf(len.val) + 2, taken.rest)))
        ELSE IF T.kind \in {"vec", "bytes", "borrowed"}
        THEN AndThen(list_header(slice), LAMBDA header :
                 IF header.val.len <= 0 THEN Ok(5, header.rest)
                 ELSE IF header.val.tag # (IF T.kind = "bytes" THEN 1 ELSE T.elem.NBT_TAG)
                 THEN ErrAny("Bad nbt tag", header.rest)
                 ELSE IF T.kind = "bytes"
                 THEN AndThen(take_bytes(header.rest, header.val.len), LAMBDA taken :
                          Ok(5 + header.val.len, taken.rest))
                 ELSE AndThen(skip_nbt(T.elem, header.rest, header.val.len), LAMBDA inner :
                          Ok(5 + inner.val, inner.rest)))
        ELSE skip_nbt_compound(T, Ok(0, slice)),
        LAMBDA turn :
            AndThen(skip_nbt(T, turn.rest, amount - 1), LAMBDA others :
                Ok(turn.val + others.val, others.rest)))

\* read_nbt_compound under the closure of skip_nbt of Vector3D and of a
\* derived struct; sofar holds __result and the cursor
skip_nbt_compound(T, sofar) ==
    AndThen(number_read(sofar.rest, 1), LAMBDA tag :
        IF NatOf(tag.val) = 0 THEN Ok(sofar.val, tag.rest)
        ELSE AndThen(read_nbt_string(tag.rest), LAMBDA name :
            LET field == field_index(T, name.val)
                bad_tag == field # 0 /\ NatOf(tag.val) # compound_fields(T)[field].ty.NBT_TAG
            IN
            IF T.kind = "vector3d" /\ NatOf(tag.val) # T.elem.NBT_TAG
            THEN ErrAny("Bad tag", name.rest)
            ELSE IF field = 0 THEN ErrAny("Bad name", name.rest)
            ELSE IF bad_tag THEN ErrAny("Bad tag", name.rest)
            ELSE AndThen(skip_nbt(compound_fields(T)[field].ty, name.rest, 1), LAMBDA value :
                     skip_nbt_compound(T, Ok(sofar.val + value.val + 3 + str_len(name.val),
                                             value.rest)))))

RECURSIVE read_nbt(_, _)
RECURSIVE read_nbt_times(_, _, _)
RECURSIVE read_nbt_compound(_, _)

\* T::read_nbt
read_nbt(T, slice) ==
    IF T.kind = "num" THEN number_read(slice, T.SIZE)
    ELSE IF T.kind = "str" THEN read_nbt_string(slice)
    ELSE IF T.kind \in {"vec", "bytes", "borrowed"}
    THEN AndThen(list_header(slice), LAMBDA header :
             IF header.val.len <= 0
             THEN Ok(IF T.kind = "borrowed" THEN [form |-> "Native", data |-> <<>>] ELSE <<>>,
                     header.rest)
             ELSE IF header.val.tag # (IF T.kind = "bytes" THEN 1 ELSE T.elem.NBT_TAG)
             THEN ErrAny("Bad nbt tag", header.rest)
             ELSE IF T.kind = "bytes" THEN take_bytes(header.rest, header.val.len)
             ELSE IF T.kind = "vec"
             THEN read_nbt_times(T.elem, Ok(<<>>, header.rest), header.val.len)
             ELSE IF T.SIZE # 0
             THEN AndThen(take_bytes(header.rest, T.SIZE * header.val.len), LAMBDA taken :
                      Ok([form |-> "Raw", data |-> taken.val], taken.rest))
             ELSE AndThen(skip_nbt(T.elem, take_cursor(header.rest), header.val.len),
                          LAMBDA raw_len :
                      AndThen(take_bytes(header.rest, raw_len.val), LAMBDA taken :
                          Ok([form |-> "Raw", data |-> taken.val], taken.rest))))
    ELSE AndThen(read_nbt_compound(T, Ok([i \in 1..Len(compound_fields(T)) |-> None], slice)),
                 LAMBDA options :
             IF \E i \in DOMAIN options.val : options.val[i] = None
             THEN ErrAny(IF T.kind = "vector3d" THEN "Not each value presented"
                         ELSE "Not each tag", options.rest)
             ELSE Ok([i \in DOMAIN options.val |-> options.val[i][1]], options.rest))

\* the loop of Vec::read_nbt: times more values pushed to sofar.val
read_nbt_times(T, sofar, times) ==
    IF times = 0 THEN sofar
    ELSE AndThen(read_nbt(T, sofar.rest), LAMBDA value :
             read_nbt_times(T, Ok(Append(sofar.val, value.val), value.rest), times - 1))

\* read_nbt_compound under the closure of read_nbt of Vector3D and of a
\* derived struct; sofar holds the Option of every field and the cursor
read_nbt_compound(T, sofar) ==
    AndThen(number_read(sofar.rest, 1), LAMBDA tag :
        IF NatOf(tag.val) = 0 THEN Ok(sofar.val, tag.rest)
        ELSE AndThen(read_nbt_string(tag.rest), LAMBDA name :
            LET field == field_index(T, name.val)
                bad_tag == field # 0 /\ NatOf(tag.val) # compound_fields(T)[field].ty.NBT_TAG
            IN
            IF T.kind = "vector3d" /\ NatOf(tag.val) # T.elem.NBT_TAG
            THEN ErrAny("Bad tag", name.rest)
            ELSE IF field = 0 THEN ErrAny("Bad name", name.rest)
            ELSE IF bad_tag THEN ErrAny("Bad tag", name.rest)
            ELSE AndThen(read_nbt(compound_fields(T)[field].ty, name.rest), LAMBDA value :
                     read_nbt_compound(T, Ok([sofar.val EXCEPT ![field] = Some(value.val)],
                                             value.rest)))))

-----------------------------------------------------------------------------
(* NbtElement: the dynamic reader. An element is a record of its tag and
   its value; a Compound is a function from names to elements. *)

NbtElement(tag, val) == [tag |-> tag, val |-> val]

\* HashMap::insert
hash_map_insert(map, key, value) ==
    [k \in DOMAIN map \cup {key} |-> IF k = key THEN value ELSE map[k]]

\* cursor.take_bytes(length as usize * size) for an i32 length
take_scaled(slice, length, size, bld) ==
    IF length >= 0 THEN take_bytes(slice, length * size)
    ELSE IF size > 1 /\ bld.overflow_checks THEN Panic(slice)
    ELSE ErrEnd(slice)

RECURSIVE read_nbt_tag(_, _, _)
RECURSIVE read_nbt_tag_times(_, _, _, _)
RECURSIVE read_nbt_tag_compound(_, _)

\* read_nbt_tag; id is the byte of the i8
read_nbt_tag(id, slice, bld) ==
    IF id = 0 THEN Ok(NbtElement(0, {}), slice)
    ELSE IF id \in 1..6
    THEN AndThen(number_read(slice, CASE id = 1 -> 1 [] id = 2 -> 2 [] id \in {3, 5} -> 4
                                      [] OTHER -> 8),
                 LAMBDA n : Ok(NbtElement(id, n.val), n.rest))
    ELSE IF id \in {7, 11, 12}
    THEN AndThen(number_read(slice, 4), LAMBDA length :
             AndThen(take_scaled(length.rest, i32_value(length.val),
                                 CASE id = 7 -> 1 [] id = 11 -> 4 [] OTHER -> 8, bld),
                     LAMBDA taken : Ok(NbtElement(id, taken.val), taken.rest)))
    ELSE IF id = 8
    THEN AndThen(read_nbt_string(slice), LAMBDA str : Ok(NbtElement(8, str.val), str.rest))
    ELSE IF id = 9
    THEN AndThen(list_header(slice), LAMBDA header :
             IF header.val.len <= 0 THEN Ok(NbtElement(9, <<>>), header.rest)
             ELSE IF header.val.tag = 0
             THEN ErrAny("NBTEnd when NbtList is not empty", header.rest)
             ELSE AndThen(read_nbt_tag_times(header.val.tag, Ok(<<>>, header.rest),
                                             header.val.len, bld),
                          LAMBDA list : Ok(NbtElement(9, list.val), list.rest)))
    ELSE IF id = 10
    THEN AndThen(read_nbt_tag_compound(Ok(<<>>, slice), bld), LAMBDA map :
             Ok(NbtElement(10, map.val), map.rest))
    ELSE ErrAny("Only tags from 0 to 12 are supported", slice)

\* the loop of tag 9
read_nbt_tag_times(id, sofar, times, bld) ==
    IF times = 0 THEN sofar
    ELSE AndThen(read_nbt_tag(id, sofar.rest, bld), LAMBDA element :
             read_nbt_tag_times(id, Ok(Append(sofar.val, element.val), element.rest),
                                times - 1, bld))

\* the loop of tag 10
read_nbt_tag_compound(sofar, bld) ==
    AndThen(number_read(sofar.rest, 1), LAMBDA tag :
        IF NatOf(tag.val) = 0 THEN Ok(sofar.val, tag.rest)
        ELSE AndThen(read_nbt_string(tag.rest), LAMBDA name :
                 AndThen(read_nbt_tag(NatOf(tag.val), name.rest, bld), LAMBDA element :
                     read_nbt_tag_compound(
                         Ok(hash_map_insert(sofar.val, name.val, element.val), element.rest),
                         bld))))

\* read_named_nbt_tag; sofar holds result and the cursor
RECURSIVE read_named_nbt_tag_loop(_, _, _)
read_named_nbt_tag_loop(name, sofar, bld) ==
    AndThen(number_read(sofar.rest, 1), LAMBDA id :
        IF NatOf(id.val) = 0 THEN Ok(sofar.val, id.rest)
        ELSE AndThen(read_nbt_string(id.rest), LAMBDA tag_name :
                 AndThen(read_nbt_tag(NatOf(id.val), tag_name.rest, bld), LAMBDA tag_value :
                     read_named_nbt_tag_loop(name,
                         Ok(IF sofar.val = None /\ tag_name.val = name
                            THEN Some(tag_value.val) ELSE sofar.val, tag_value.rest),
                         bld))))

read_named_nbt_tag(name, slice, bld) == read_named_nbt_tag_loop(name, Ok(None, slice), bld)

-----------------------------------------------------------------------------
(* NBT lists: a list header of any element tag and count, read by every
   list reader and skipper *)

ListTags == {0, 1, 3, 8, 9, 10, 13, 255}
ListCounts == {-2147483647 - 1, -1, 0, 1}
ListTrails == {<<>>, <<0, 0, 0, 7>>, <<0, 1, 97, 0, 0>>}

\* Vec<i32>, &[u8], NbtBorrowedI32Array and NbtBorrowedArray<Cow<str>>
ListTypes ==
    <<NbtVec(NbtNum(3, 4)), NbtByteSlice, NbtBorrowed(NbtNum(3, 4), 4), NbtBorrowed(NbtStr, 0)>>

ListInit ==
    /\ build \in {b \in Builds : b.overflow_checks = b.debug_assertions}
    /\ pc = "list"
    /\ input \in [tag : ListTags, count : ListCounts, trail : ListTrails]
    /\ writer = <<>>
    /\ cursors = <<<<input.tag>> \o to_be_bytes(SignedBits(input.count, 32), 4) \o input.trail>>
    /\ call = NoCall
    /\ result = NoResult
    /\ packer = NoPacker
    /\ unpacker = NoUnpacker
    /\ owned = NoOwned

\* the call made on cursors[1] and what it returned
ListCall(op, r, rest) ==
    /\ pc = "list"
    /\ result' = [r EXCEPT !.rest = <<>>]
    /\ cursors' = <<rest>>
    /\ call' = [op |-> op, on |-> 1, length |-> 0, before |-> cursors]
    /\ pc' = "list_read"
    /\ UNCHANGED <<build, input, writer, packer, unpacker, owned>>

\* T::read_nbt(&mut cursors[1]) for a list type T
ListReadNbt ==
    \E i \in DOMAIN ListTypes :
        LET r == read_nbt(ListTypes[i], cursors[1]) IN ListCall("read_nbt", r, r.rest)

\* T::skip_nbt(&mut cursors[1], 1) for a list type T
ListSkipNbt ==
    \E i \in DOMAIN ListTypes :
        LET r == skip_nbt(ListTypes[i], cursors[1], 1) IN ListCall("skip_nbt", r, r.rest)

\* read_nbt_tag(9, &mut cursors[1])
ListReadNbtTag ==
    LET r == read_nbt_tag(9, cursors[1], build) IN ListCall("read_nbt_tag", r, r.rest)

\* skip_tag(&mut ProtocolSkipCursor::new(cursors[1]), 9, 1)
ListSkipTag ==
    LET r == skip_tag(skip_cursor_new(cursors[1]), 9, 1, build)
    IN  ListCall("skip_tag", r, r.rest.cursor)

ListNext == ListReadNbt \/ ListSkipNbt \/ ListReadNbtTag \/ ListSkipTag

SpecNbtList == ListInit /\ [][ListNext]_vars

\* the call returned an empty list, or the 5 bytes of an empty list as the
\* count of skip_nbt, and the cursor is 5 bytes further
list_read_as_empty ==
    /\ result.kind = "Ok"
    /\ Len(call.before[1]) - Len(cursors[1]) = 5
    /\ call.op = "read_nbt" => result.val \in {<<>>, [form |-> "Native", data |-> <<>>]}
    /\ call.op = "skip_nbt" => result.val = 5
    /\ call.op = "read_nbt_tag" => result.val = NbtElement(9, <<>>)

\* C24: a list whose i32 count is <= 0 is read as empty whatever its element
\* tag byte is, with exactly the 5 header bytes consumed, by the typed
\* readers and skippers of Vec<T>, &[u8] and NbtBorrowedArray, by
\* read_nbt_tag and by skip_tag (tag 9).
ListEmptyWhateverTag ==
    (pc = "list_read" /\ input.count <= 0) => list_read_as_empty

-----------------------------------------------------------------------------
(* NBT compounds whose entries repeat a name *)

MaxDupEntries == 3
DupNames == {<<97>>, <<98>>}
DupValues == {1, 2, 3}

\* a struct deriving the compound reader, with the i8 fields a and b
DupStruct == NbtStruct(<<[name |-> <<97>>, ty |-> NbtNum(1, 1)],
                         [name |-> <<98>>, ty |-> NbtNum(1, 1)]>>)

\* the entries of a compound body, each a Byte tag, and its End
RECURSIVE dup_bytes(_)
dup_bytes(entries) ==
    IF entries = <<>> THEN <<0>>
    ELSE write_nbt_str(entries[1].name, <<1>>).rest \o <<entries[1].value>>
         \o dup_bytes(Tail(entries))

\* the value of the last entry of that name
last_of(entries, name) ==
    entries[CHOOSE i \in DOMAIN entries :
                /\ entries[i].name = name
                /\ \A j \in DOMAIN entries : entries[j].name = name => j <= i].value

DupInit ==
    /\ build \in {b \in Builds : b.overflow_checks = b.debug_assertions}
    /\ pc = "dup"
    /\ input \in UNION {[1..n -> [name : DupNames, value : DupValues]] : n \in 1..MaxDupEntries}
    /\ writer = <<>>
    /\ cursors = <<dup_bytes(input)>>
    /\ call = NoCall
    /\ result = NoResult
    /\ packer = NoPacker
    /\ unpacker = NoUnpacker
    /\ owned = NoOwned

\* the call made on cursors[1] and what it returned
DupCall(op, r) ==
    /\ pc = "dup"
    /\ result' = [r EXCEPT !.rest = <<>>]
    /\ cursors' = <<r.rest>>
    /\ call' = [op |-> op, on |-> 1, length |-> 0, before |-> cursors]
    /\ pc' = "dup_read"
    /\ UNCHANGED <<build, input, writer, packer, unpacker, owned>>

\* DupStruct::read_nbt(&mut cursors[1])
DupReadNbt == DupCall("read_nbt", read_nbt(DupStruct, cursors[1]))

\* read_nbt_tag(10, &mut cursors[1])
DupReadNbtTag == DupCall("read_nbt_tag", read_nbt_tag(10, cursors[1], build))

\* read_named_nbt_tag("a", &mut cursors[1])
DupReadNamed == DupCall("read_named_nbt_tag", read_named_nbt_tag(<<97>>, cursors[1], build))

DupNext == DupReadNbt \/ DupReadNbtTag \/ DupReadNamed

SpecNbtDup == DupInit /\ [][DupNext]_vars

dup_names_present == {input[i].name : i \in DOMAIN input}

\* C25: when a compound holds the same field name more than once, the
\* derived struct reader, read_nbt_tag (tag 10) and read_named_nbt_tag each
\* yield the value of the last occurrence.
DupLastWins ==
    (pc = "dup_read") =>
        /\ (call.op = "read_nbt" /\ dup_names_present = DupNames) =>
              /\ result.kind = "Ok"
              /\ \A i \in 1..2 :
                    result.val[i] = BitsOf(last_of(input, DupStruct.fields[i].name))
        /\ (call.op = "read_nbt_tag") =>
              /\ result.kind = "Ok"
              /\ DOMAIN result.val.val = dup_names_present
              /\ \A name \in dup_names_present :
                    result.val.val[name] = NbtElement(1, BitsOf(last_of(input, name)))
        /\ (call.op = "read_named_nbt_tag") =>
              /\ result.kind = "Ok"
              /\ result.val = IF <<97>> \in dup_names_present
                              THEN Some(NbtElement(1, BitsOf(last_of(input, <<97>>))))
                              ELSE None

-----------------------------------------------------------------------------
(* skip_nbt against read_nbt: n well-formed values of a type, read one
   after the other on one cursor and skipped at once on another *)

MaxValues == 2

\* a struct deriving the compound reader, with the fields a: i8 and s: Cow<str>
ValueStruct == NbtStruct(<<[name |-> <<97>>, ty |-> NbtNum(1, 1)],
                           [name |-> <<115>>, ty |-> NbtStr]>>)

\* types and, for each, encodings of values of it
ValueCases ==
    <<[T |-> NbtNum(3, 4), values |-> {I32(5), <<255, 255, 255, 255>>}],
      [T |-> NbtNum(6, 8), values |-> {<<63, 240, 0, 0, 0, 0, 0, 0>>}],
      [T |-> NbtStr, values |-> {U16(0), U16(2) \o <<104, 105>>}],
      [T |-> NbtVec(NbtNum(3, 4)),
       values |-> {<<0>> \o I32(0), <<3>> \o I32(2) \o I32(1) \o I32(2)}],
      [T |-> NbtVec(NbtStr), values |-> {<<8>> \o I32(2) \o U16(1) \o <<97>> \o U16(0)}],
      [T |-> NbtByteSlice, values |-> {<<1>> \o I32(0), <<1>> \o I32(3) \o <<7, 8, 9>>}],
      [T |-> NbtBorrowed(NbtStr, 0), values |-> {<<8>> \o I32(1) \o U16(1) \o <<97>>}],
      [T |-> ValueStruct,
       values |-> {NbtEntry(1, <<97>>, <<7>>) \o NbtEntry(8, <<115>>, U16(1) \o <<120>>) \o <<0>>,
                   NbtEntry(8, <<115>>, U16(0)) \o NbtEntry(1, <<97>>, <<1>>) \o <<0>>}],
      [T |-> NbtVector3D(NbtNum(3, 4)),
       values |-> {NbtEntry(3, <<88>>, I32(1)) \o NbtEntry(3, <<89>>, I32(2))
                   \o NbtEntry(3, <<90>>, I32(3)) \o <<0>>}],
      [T |-> NbtVec(NbtVector3D(NbtNum(1, 1))),
       values |-> {<<10>> \o I32(1) \o NbtEntry(1, <<90>>, <<3>>) \o NbtEntry(1, <<88>>, <<1>>)
                   \o NbtEntry(1, <<89>>, <<2>>) \o <<0>>}]>>

ValueTrails == {<<>>, <<0, 0>>}

RECURSIVE concat(_)
concat(seqs) == IF seqs = <<>> THEN <<>> ELSE seqs[1] \o concat(Tail(seqs))

ValuesInit ==
    /\ build \in {b \in Builds : b.overflow_checks = b.debug_assertions}
    /\ pc = "values"
    /\ \E i \in DOMAIN ValueCases, n \in 0..MaxValues, trail \in ValueTrails :
         \E values \in [1..n -> ValueCases[i].values] :
            /\ input = [T |-> ValueCases[i].T, n |-> n, bytes |-> concat(values) \o trail]
            /\ cursors = <<concat(values) \o trail, concat(values) \o trail>>
    /\ writer = <<>>
    /\ call = NoCall
    /\ result = NoResult
    /\ packer = NoPacker
    /\ unpacker = NoUnpacker
    /\ owned = NoOwned

\* input.n times T::read_nbt(&mut cursors[1])
ValuesRead ==
    /\ pc = "values"
    /\ LET r == read_nbt_times(input.T, Ok(<<>>, cursors[1]), input.n) IN
        /\ cursors' = [cursors EXCEPT ![1] = r.rest]
        /\ pc' = IF r.kind = "Ok" THEN "values_read" ELSE "values_not_read"
    /\ call' = [op |-> "read_nbt", on |-> 1, length |-> input.n, before |-> cursors]
    /\ UNCHANGED <<build, input, writer, result, packer, unpacker, owned>>

\* T::skip_nbt(&mut cursors[2], input.n)
ValuesSkip ==
    /\ pc = "values_read"
    /\ LET r == skip_nbt(input.T, cursors[2], input.n) IN
        /\ cursors' = [cursors EXCEPT ![2] = r.rest]
        /\ result' = [r EXCEPT !.rest = <<>>]
    /\ call' = [op |-> "skip_nbt", on |-> 2, length |-> input.n, before |-> cursors]
    /\ pc' = "values_skipped"
    /\ UNCHANGED <<build, input, writer, packer, unpacker, owned>>

ValuesNext == ValuesRead \/ ValuesSkip

SpecNbtValues == ValuesInit /\ [][ValuesNext]_vars

\* C26: on input holding n well-formed values of T, skip_nbt(cursor, n)
\* advances the cursor by as many bytes as n successive read_nbt calls and
\* returns that number, for numbers, strings, lists and compound types
\* (derived structs and Vector3D), whose tag bytes, names, payloads and End
\* byte all count.
SkipAsRead ==
    /\ pc # "values_not_read"
    /\ (pc = "values_skipped") =>
          /\ result.kind = "Ok"
          /\ cursors[2] = cursors[1]
          /\ result.val = Len(input.bytes) - Len(cursors[1])

-----------------------------------------------------------------------------
(* ProtocolSizeOption<T, S> for a fixed-width number T of T bytes; an
   Option holds the bit pattern of the number *)

\* ProtocolSizeOption::<T, S>::write_variant
size_option_write(T, S, object, out) ==
    IF object # None THEN number_write(object[1], T, out)
    ELSE Ok({}, out \o [i \in 1..S |-> 0])

\* ProtocolSizeOption::<T, S>::read_variant
size_option_read(T, S, slice) ==
    IF remaining_bytes(slice) = S THEN Ok(None, slice)
    ELSE AndThen(number_read(slice, T), LAMBDA val : Ok(Some(val.val), val.rest))

MaxPadding == 3
OptionWidths == {1, 2, 4}

OptionInit ==
    /\ build \in {b \in Builds : b.overflow_checks = b.debug_assertions}
    /\ pc = "option"
    /\ \E T \in OptionWidths, S \in 0..MaxPadding :
         \E object \in {None} \cup {Some(word) : word \in {{}, {0}, {8 * T - 1}, 0..(8 * T - 1)}} :
            input = [T |-> T, S |-> S, object |-> object]
    /\ writer = <<>>
    /\ cursors = <<>>
    /\ call = NoCall
    /\ result = NoResult
    /\ packer = NoPacker
    /\ unpacker = NoUnpacker
    /\ owned = NoOwned

\* ProtocolSizeOption::<T, S>::write_variant(&input.object, &mut writer); the
\* field is the last of its packet, so the reader's cursor holds its bytes
OptionWrite ==
    /\ pc = "option"
    /\ LET r == size_option_write(input.T, input.S, input.object, writer) IN
        /\ writer' = r.rest
        /\ cursors' = <<r.rest>>
    /\ call' = [op |-> "write_variant", on |-> 0, length |-> 0, before |-> <<>>]
    /\ pc' = "option_written"
    /\ UNCHANGED <<build, input, result, packer, unpacker, owned>>

\* ProtocolSizeOption::<T, S>::read_variant(&mut cursors[1])
OptionRead ==
    /\ pc = "option_written"
    /\ LET r == size_option_read(input.T, input.S, cursors[1]) IN
        /\ result' = [r EXCEPT !.rest = <<>>]
        /\ cursors' = <<r.rest>>
    /\ call' = [op |-> "read_variant", on |-> 1, length |-> 0, before |-> cursors]
    /\ pc' = "option_read"
    /\ UNCHANGED <<build, input, writer, packer, unpacker, owned>>

OptionNext == OptionWrite \/ OptionRead

SpecSizeOption == OptionInit /\ [][OptionNext]_vars

\* C27: as a trailing field, None is written as S zero bytes and read back
\* as None, Some(v) is read back as Some(v) for every v, also when its
\* encoding is exactly S bytes long, and the read advances the cursor by
\* exactly the number of bytes the write emitted.
SizeOptionRoundTrip ==
    /\ (pc \in {"option_written", "option_read"} /\ input.object = None) =>
          writer = [i \in 1..input.S |-> 0]
    /\ (pc = "option_read") =>
          /\ result.kind = "Ok"
          /\ result.val = input.object
          /\ Len(call.before[1]) - Len(cursors[1]) = Len(writer)

-----------------------------------------------------------------------------
(* NBT string writers: a str written, then read back *)

MaxNbtChars == 2

\* U+0000, a, e with acute, the euro sign and U+10000: UTF-8 of 1, 1, 2, 3
\* and 4 bytes
NbtChars == {0, 97, 233, 8364, 65536}

NbtStrInit ==
    /\ build \in {b \in Builds : b.overflow_checks = b.debug_assertions}
    /\ pc = "nbt_str"
    /\ input \in UNION {[1..n -> NbtChars] : n \in 0..MaxNbtChars}
    /\ writer = <<>>
    /\ cursors = <<>>
    /\ call = NoCall
    /\ result = NoResult
    /\ packer = NoPacker
    /\ unpacker = NoUnpacker
    /\ owned = NoOwned

NbtStrWritten(op, r) ==
    /\ pc = "nbt_str"
    /\ writer' = r.rest
    /\ cursors' = <<r.rest>>
    /\ result' = [r EXCEPT !.rest = <<>>]
    /\ call' = [op |-> op, on |-> 0, length |-> 0, before |-> <<>>]
    /\ pc' = "nbt_str_written"
    /\ UNCHANGED <<build, input, packer, unpacker, owned>>

\* write_nbt_str(input, &mut writer)
NbtStrWriteNbtStr == NbtStrWritten("write_nbt_str", write_nbt_str(input, writer))

\* write_nbt_string(input, &mut writer)
NbtStrWriteNbtString == NbtStrWritten("write_nbt_string", write_nbt_string(input, writer))

\* read_nbt_string(&mut cursors[1])
NbtStrReadNbtString ==
    /\ pc = "nbt_str_written"
    /\ LET r == read_nbt_string(cursors[1]) IN
        /\ result' = [r EXCEPT !.rest = <<>>]
        /\ cursors' = <<r.rest>>
    /\ pc' = "nbt_str_read"
    /\ UNCHANGED <<build, input, writer, call, packer, unpacker, owned>>

NbtStrNext == NbtStrWriteNbtStr \/ NbtStrWriteNbtString \/ NbtStrReadNbtString

SpecNbtStr == NbtStrInit /\ [][NbtStrNext]_vars

\* C28: write_nbt_str and write_nbt_string emit a big-endian u16 equal to
\* the number of Java CESU-8 bytes that follow it, and reading the written
\* bytes as an NBT string returns the original string and consumes exactly
\* the written bytes, also for strings holding U+0000 or supplementary-plane
\* characters.
NbtStringRoundTrip ==
    /\ (pc \in {"nbt_str_written", "nbt_str_read"}) =>
          /\ Len(writer) >= 2
          /\ NatOf(from_be_bytes(SubSeq(writer, 1, 2))) = Len(writer) - 2
          /\ SubSeq(writer, 3, Len(writer)) = to_java_cesu8(input)
    /\ (pc = "nbt_str_read") =>
          /\ result.kind = "Ok"
          /\ result.val = input
          /\ cursors[1] = <<>>

-----------------------------------------------------------------------------
(* LengthFunctionRawArray with the provided-length determiner of an i32
   written as VarInt: an element is the sequence of the size_of::<V>() bytes
   it occupies *)

\* t_array_into_byte_array
t_array_into_byte_array(array) == concat(array)

\* byte_array_into_t_array::<V>: array.len() / size_of::<V>() elements
byte_array_into_t_array(array, size) ==
    [k \in 1..(Len(array) \div size) |-> SubSeq(array, size * (k - 1) + 1, size * k)]

\* LengthFunctionRawArray::write_variant
raw_array_write(ELEMENT_COUNT, size, object, out) ==
    var_write_variant(SignedBits(Len(object) * (IF ELEMENT_COUNT THEN 1 ELSE size), 32), out)
        \o t_array_into_byte_array(object)

\* LengthFunctionRawArray::read_variant for &[V]; a negative i32 is, as
\* usize, more than any slice holds
raw_array_read(ELEMENT_COUNT, size, slice, bld) ==
    AndThen(var_read_variant("VarInt", slice, bld), LAMBDA provided :
        IF i32_value(provided.val) < 0 THEN ErrEnd(provided.rest)
        ELSE AndThen(take_bytes(provided.rest,
                                i32_value(provided.val) \div (IF ELEMENT_COUNT THEN 1 ELSE size)),
                     LAMBDA taken : Ok(byte_array_into_t_array(taken.val, size), taken.rest)))

MaxRecords == 3

\* size_of::<Vector3D<i8>>()
RecordSize == 3

Records == {<<1, 2, 3>>, <<255, 0, 7>>}

\* the bytes of the field that follows records in ExplosionPS2C
RecordTrails == {<<>>, <<63, 128, 0, 0>>}

RawInit ==
    /\ build \in {b \in Builds : b.overflow_checks = b.debug_assertions}
    /\ pc = "raw"
    /\ input \in [xs : UNION {[1..n -> Records] : n \in 0..MaxRecords}, trail : RecordTrails]
    /\ writer = <<>>
    /\ cursors = <<>>
    /\ call = NoCall
    /\ result = NoResult
    /\ packer = NoPacker
    /\ unpacker = NoUnpacker
    /\ owned = NoOwned

\* LengthProvidedRawArray::<i32, VarInt, Vector3D<i8>, _>::write_variant(
\* input.xs, &mut writer), then the bytes of the next field
RawWrite ==
    /\ pc = "raw"
    /\ writer' = raw_array_write(TRUE, RecordSize, input.xs, writer)
    /\ cursors' = <<raw_array_write(TRUE, RecordSize, input.xs, writer) \o input.trail>>
    /\ call' = [op |-> "write_variant", on |-> 0, length |-> 0, before |-> <<>>]
    /\ pc' = "raw_written"
    /\ UNCHANGED <<build, input, result, packer, unpacker, owned>>

\* LengthProvidedRawArray::<i32, VarInt, Vector3D<i8>, _>::read_variant(&mut cursors[1])
RawRead ==
    /\ pc = "raw_written"
    /\ LET r == raw_array_read(TRUE, RecordSize, cursors[1], build) IN
        /\ result' = [r EXCEPT !.rest = <<>>]
        /\ cursors' = <<r.rest>>
    /\ call' = [op |-> "read_variant", on |-> 1, length |-> 0, before |-> cursors]
    /\ pc' = "raw_read"
    /\ UNCHANGED <<build, input, writer, packer, unpacker, owned>>

RawNext == RawWrite \/ RawRead

SpecRawArray == RawInit /\ [][RawNext]_vars

\* C29: for ExplosionPS2C.records, a raw array of 3-byte elements with a
\* provided length, the writer emits the element count and then count * 3
\* bytes, the reader consumes count * 3 bytes, and read(write(xs)) returns a
\* slice equal to xs for every xs.
RawArrayRoundTrip ==
    /\ (pc \in {"raw_written", "raw_read"}) =>
          writer = <<Len(input.xs)>> \o concat(input.xs)
    /\ (pc = "raw_read") =>
          /\ result.kind = "Ok"
          /\ result.val = input.xs
          /\ cursors[1] = input.trail

-----------------------------------------------------------------------------
(* The Commands packet: BrigadierNodeRangeProperties and BrigadierNode. A
   node holds its children and redirect_node as integers, its name and its
   suggestions_type as the bytes of the string, and a parser as its arm with
   the arm's field. *)

\* the keys of the arms of BrigadierNodeParser used here: the position of
\* the arm in the enum
BrigadierNodeParserKeys == [Bool |-> 0, Integer |-> 3]

\* <BrigadierNodeParser as ProtocolWritable>::write: the key as VarInt, then
\* the fields of the arm
brigadier_node_parser_write(object, out) ==
    LET key == var_write_variant(SignedBits(BrigadierNodeParserKeys[object.arm], 32), out) IN
    IF object.arm = "Integer" THEN brigadier_range_write("i32", object.range, key)
    ELSE Ok({}, key)

\* <BrigadierNodeParser as ProtocolReadable>::read
brigadier_node_parser_read(slice, bld) ==
    AndThen(var_read_variant("VarInt", slice, bld), LAMBDA key :
        IF i32_value(key.val) = BrigadierNodeParserKeys.Bool
        THEN Ok([arm |-> "Bool"], key.rest)
        ELSE IF i32_value(key.val) = BrigadierNodeParserKeys.Integer
        THEN AndThen(brigadier_range_read("i32", key.rest), LAMBDA range :
                 Ok([arm |-> "Integer", range |-> range.val], range.rest))
        ELSE ErrAny("Bad value of key", key.rest))

\* Identifier::new_full: exactly one ':'
identifier_new_full(full) ==
    IF Cardinality({i \in DOMAIN full : full[i] = 58}) = 1 THEN Some(full) ELSE None

\* BrigadierNodeFlags: node_type in bits 0 and 1, then executable, redirect
\* and suggestions_type
brigadier_node_flags(object) ==
    (IF object.name = None THEN 0 ELSE IF object.parser = None THEN 1 ELSE 2)
        + (IF object.executable THEN 4 ELSE 0)
        + (IF object.redirect_node # None THEN 8 ELSE 0)
        + (IF object.suggestions_type # None THEN 16 ELSE 0)

\* BrigadierNode::write
brigadier_node_write(object, out) ==
    LET children == i32_array_write(object.children, Append(out, brigadier_node_flags(object)))
        redirect == IF object.redirect_node = None THEN Ok({}, children)
                    ELSE number_write(SignedBits(object.redirect_node[1], 32), 4, children)
    IN
    AndThen(IF object.parser = None THEN redirect
            ELSE brigadier_node_parser_write(object.parser[1], redirect.rest),
            LAMBDA parser :
                IF object.suggestions_type = None THEN parser
                ELSE write_str_with_limit(object.suggestions_type[1], DEFAULT_LIMIT, parser.rest))

\* Option<T> read when the flag is set
read_if(flag, r) == IF flag THEN AndThen(r, LAMBDA v : Ok(Some(v.val), v.rest)) ELSE r

\* BrigadierNode::read
brigadier_node_read(slice, bld) ==
    AndThen(number_read(slice, 1), LAMBDA flags :
    AndThen(i32_array_read(flags.rest, bld), LAMBDA children :
    AndThen(IF 3 \in flags.val
            THEN AndThen(var_read_variant("VarInt", children.rest, bld), LAMBDA v :
                     Ok(Some(i32_value(v.val)), v.rest))
            ELSE Ok(None, children.rest), LAMBDA redirect_node :
    AndThen(read_if(flags.val \cap {0, 1} # {},
                    IF flags.val \cap {0, 1} = {} THEN Ok(None, redirect_node.rest)
                    ELSE read_str_with_limit(redirect_node.rest, DEFAULT_LIMIT, bld)),
            LAMBDA name :
    AndThen(read_if(1 \in flags.val,
                    IF 1 \notin flags.val THEN Ok(None, name.rest)
                    ELSE brigadier_node_parser_read(name.rest, bld)),
            LAMBDA parser :
    AndThen(IF 4 \notin flags.val THEN Ok(None, parser.rest)
            ELSE AndThen(read_str_with_limit(parser.rest, DEFAULT_LIMIT, bld), LAMBDA full :
                     IF identifier_new_full(full.val) = None
                     THEN ErrAny("Bad identifier", full.rest)
                     ELSE Ok(Some(full.val), full.rest)),
            LAMBDA suggestions_type :
        Ok([executable |-> 2 \in flags.val,
            children |-> children.val,
            redirect_node |-> redirect_node.val,
            name |-> name.val,
            parser |-> parser.val,
            suggestions_type |-> suggestions_type.val], suggestions_type.rest)))))))

\* the four combinations of min and max of a range of i32
BrigadierRanges ==
    [min : {None, Some(SignedBits(-5, 32))}, max : {None, Some(SignedBits(7, 32))}]

\* root, literal and argument nodes
BrigadierNodes ==
    {[executable |-> e, children |-> c, redirect_node |-> r, name |-> k.name,
      parser |-> k.parser, suggestions_type |-> s] :
        e \in BOOLEAN, c \in {<<>>, <<1, 2>>}, r \in {None, Some(1), Some(300)},
        k \in {[name |-> None, parser |-> None],
               [name |-> Some(<<97>>), parser |-> None],
               [name |-> Some(<<97>>), parser |-> Some([arm |-> "Bool"])]}
              \cup {[name |-> Some(<<97>>), parser |-> Some([arm |-> "Integer", range |-> g])] :
                      g \in BrigadierRanges},
        s \in {None, Some(<<97, 58, 98>>)}}

BrigadierInit ==
    /\ build \in {b \in Builds : b.overflow_checks = b.debug_assertions}
    /\ pc = "commands"
    /\ input \in [ty : {"BrigadierNodeRangeProperties"}, object : BrigadierRanges]
                 \cup [ty : {"BrigadierNode"}, object : BrigadierNodes]
    /\ writer = <<>>
    /\ cursors = <<>>
    /\ call = NoCall
    /\ result = NoResult
    /\ packer = NoPacker
    /\ unpacker = NoUnpacker
    /\ owned = NoOwned

BrigadierWritten(r) ==
    /\ pc = "commands"
    /\ writer' = r.rest
    /\ cursors' = <<r.rest>>
    /\ result' = [r EXCEPT !.rest = <<>>]
    /\ call' = [op |-> "write", on |-> 0, length |-> 0, before |-> <<>>]
    /\ pc' = "commands_written"
    /\ UNCHANGED <<build, input, packer, unpacker, owned>>

BrigadierReadBack(r) ==
    /\ pc = "commands_written"
    /\ result' = [r EXCEPT !.rest = <<>>]
    /\ cursors' = <<r.rest>>
    /\ call' = [op |-> "read", on |-> 1, length |-> 0, before |-> cursors]
    /\ pc' = "commands_read"
    /\ UNCHANGED <<build, input, writer, packer, unpacker, owned>>

\* BrigadierNodeRangeProperties::<i32>::write(&input.object, &mut writer)
BrigadierRangeWrite ==
    /\ input.ty = "BrigadierNodeRangeProperties"
    /\ BrigadierWritten(brigadier_range_write("i32", input.object, writer))

\* BrigadierNodeRangeProperties::<i32>::read(&mut cursors[1])
BrigadierRangeRead ==
    /\ input.ty = "BrigadierNodeRangeProperties"
    /\ BrigadierReadBack(brigadier_range_read("i32", cursors[1]))

\* BrigadierNode::write(&input.object, &mut writer)
BrigadierNodeWrite ==
    /\ input.ty = "BrigadierNode"
    /\ BrigadierWritten(brigadier_node_write(input.object, writer))

\* BrigadierNode::read(&mut cursors[1])
BrigadierNodeRead ==
    /\ input.ty = "BrigadierNode"
    /\ BrigadierReadBack(brigadier_node_read(cursors[1], build))

BrigadierNext ==
    BrigadierRangeWrite \/ BrigadierRangeRead \/ BrigadierNodeWrite \/ BrigadierNodeRead

SpecCommands == BrigadierInit /\ [][BrigadierNext]_vars

\* C30: for every BrigadierNodeRangeProperties value (min and max present
\* or not) and every BrigadierNode value (root, literal and argument nodes,
\* with and without redirect_node and suggestions_type), read applied to
\* the bytes produced by write returns an equal value and consumes exactly
\* those bytes.
CommandsRoundTrip ==
    /\ (pc = "commands_written") => result.kind = "Ok"
    /\ (pc = "commands_read") =>
          /\ result.kind = "Ok"
          /\ result.val = input.object
          /\ cursors[1] = <<>>

=============================================================================
